---- MODULE Spec2Model ----
(***************************************************************************)
(* Model of the DataTable class of ts/Data/DataTable.ts.                   *)
(*                                                                         *)
(* JavaScript arrays are objects with identity: the model keeps them in a  *)
(* heap (address -> sequence) so that sharing of a column array between    *)
(* two tables, or between a table and its caller, is visible.  Array       *)
(* indices are 0-based in the source and 1-based in the sequences here.    *)
(* `undefined` (an absent cell, an absent return value) is the string      *)
(* Undef.  Plain objects used as string-keyed records (columns, aliasMap)  *)
(* are functions; for `columns` the key insertion order is kept as well,   *)
(* because Object.keys(columns) decides the name list of a new table.      *)
(***************************************************************************)
EXTENDS Integers, Sequences, FiniteSets, TLC

\* ------------------------------------------------------------------ bounds
MaxSteps == 2
MaxRowIndex == 1
MaxCallbacks == 2

\* ------------------------------------------------------------ input values
Undef == "undefined"
Names == {"", "x", "0", "a"}
AliasKeys == {"a", "x"}
AliasTargets == {"", "x", "0"}
InColumns == {<<>>, <<"v1">>, <<"v2", "v1">>}
InRows == {<<>>, <<"v2">>, <<"v1", "v2">>}
InCells == {"v1", "v2"}
RowIndices == 0..MaxRowIndex
Offsets == (0 - MaxRowIndex - 1)..(MaxRowIndex + 1)
InEventTypes == {"afterCloneTable", "afterDeleteRow"}
InCallbacks == {"f", "g"}

\* --------------------------------------------------------- JavaScript core
Digits == <<"0", "1", "2", "3", "4", "5", "6", "7", "8", "9">>

\* `${i}` for a small array index i
ToStr(i) == Digits[i + 1]

\* truthiness of a (string | undefined) value: '' and undefined are falsy
Truthy(s) == s # Undef /\ s # ""

Range(s) == {s[k] : k \in 1..Len(s)}

Max2(a, b) == IF a >= b THEN a ELSE b

Min2(a, b) == IF a <= b THEN a ELSE b

\* array[i]
ArrGet(s, i) == IF i >= 0 /\ i < Len(s) THEN s[i + 1] ELSE Undef

\* array[i] = v for i >= 0 (a write past the end leaves holes, read as undefined)
ArrSet(s, i, v) ==
    [k \in 1..Max2(Len(s), i + 1) |->
        IF k = i + 1 THEN v ELSE IF k <= Len(s) THEN s[k] ELSE Undef]

\* mutant of SpliceStart: the removal starts one position too late
SpliceStart_next(s, i) ==
    IF i < 0 THEN Max2(Len(s) + i, 0) ELSE Min2(i + 1, Len(s))

\* first position array.splice(i, 1) acts on (negative i counts from the end)
SpliceStart(s, i) == IF i < 0 THEN Max2(Len(s) + i, 0) ELSE Min2(i, Len(s))

\* the elements array.splice(i, 1) returns
SpliceRemoved(s, i) ==
    IF SpliceStart(s, i) < Len(s) THEN <<s[SpliceStart(s, i) + 1]>> ELSE <<>>

\* the array after array.splice(i, 1)
SpliceRest(s, i) ==
    [k \in 1..(Len(s) - Len(SpliceRemoved(s, i))) |->
        IF k <= SpliceStart(s, i) THEN s[k] ELSE s[k + 1]]

\* array.indexOf(x)
IndexOf(s, x) ==
    IF x \in Range(s)
    THEN (CHOOSE k \in 1..Len(s) : s[k] = x /\ \A j \in 1..(k - 1) : s[j] # x) - 1
    ELSE -1

\* array.indexOf(x, fromIndex): a negative fromIndex counts from the end
IndexOfFrom(s, x, fromIndex) ==
    LET start == IF fromIndex < 0 THEN Max2(Len(s) + fromIndex, 0) ELSE fromIndex
        hits == {k \in 0..(Len(s) - 1) : k >= start /\ s[k + 1] = x}
    IN IF hits = {} THEN -1
       ELSE CHOOSE k \in hits : \A j \in hits : k <= j

\* obj[k] = ... on the key order of an object
KeysSet(keys, k) == IF k \in Range(keys) THEN keys ELSE Append(keys, k)

\* delete obj[k] on the key order of an object
KeysDelete(keys, k) == SelectSeq(keys, LAMBDA x : x # k)

\* Object.keys(obj): integer-like keys ascending, then the others in
\* insertion order
ObjectKeys(keys) ==
    SelectSeq(Digits, LAMBDA d : d \in Range(keys)) \o
    SelectSeq(keys, LAMBDA k : k \notin Range(Digits))

EmptyMap == [n \in {} |-> Undef]

\* -------------------------------------------------------------------- heap
\* address of a newly created array
Alloc(h) ==
    CHOOSE a \in 1..(Cardinality(DOMAIN h) + 1) :
        a \notin DOMAIN h /\ \A b \in 1..(a - 1) : b \in DOMAIN h

\* heap after creating an array with the given content at Alloc(h)
New(h, content) == h @@ (Alloc(h) :> content)

\* ------------------------------------------------------------------- table
\* columns[name] (0 when undefined)
ColLookup(t, n) == IF n \in DOMAIN t.colRef THEN t.colRef[n] ELSE 0

\* aliasMap[s]
AliasLookup(t, s) == IF s \in DOMAIN t.aliasMap THEN t.aliasMap[s] ELSE Undef

\* (table.aliasMap[columnNameOrAlias] || columnNameOrAlias)
Resolve(t, s) == IF Truthy(AliasLookup(t, s)) THEN AliasLookup(t, s) ELSE s

\* contents of all columns, by column-map key
ColumnContents(t, h) == [n \in DOMAIN t.colRef |-> h[t.colRef[n]]]

\* what a reader of the table sees: name list, columns, rowCount, aliases,
\* id and the registered callbacks
View(t, h) ==
    [names |-> h[t.names],
     columns |-> ColumnContents(t, h),
     rowCount |-> t.rowCount,
     aliasMap |-> t.aliasMap,
     id |-> t.id,
     hcEvents |-> t.hcEvents]

\* an emitted event as a recording subscriber observes it: the type, the
\* column/row payload and the table as read during delivery
Ev(type, t, h, data) == [type |-> type, data |-> data, view |-> View(t, h)]

\* result of a call: table, heap, events emitted, returned status, returned
\* array content, addresses of the arrays handed to the caller
Res(t, h, ev, ret, val, refs) ==
    [t |-> t, h |-> h, ev |-> ev, ret |-> ret, val |-> val, refs |-> refs]

\* f restricted to the keys in S
Restrict(f, S) == [x \in S |-> f[x]]

\* column.slice(): the heap with the copy, and the copy's address
ArrSlice(h, a) == [h |-> New(h, h[a]), a |-> Alloc(h)]

\* mutant of constructorColumn: the caller's array is installed without copy
constructorColumn_shared(h, a) == [h |-> h, a |-> a]

\* line 171 of the constructor: column = columns[columnName].slice()
constructorColumn(h, a) == ArrSlice(h, a)

\* the constructor's loop over myColumnNames from position i on; st holds
\* the heap and this.columns built so far, ref is the caller's collection
RECURSIVE constructorLoop(_, _, _, _)
constructorLoop(st, myColumnNames, ref, i) ==
    IF i > Len(myColumnNames) THEN st
    ELSE LET c == constructorColumn(st.h, ref[myColumnNames[i]])
         IN constructorLoop(
                [h |-> c.h,
                 colRef |-> st.colRef @@ (myColumnNames[i] :> c.a),
                 maxRowCount |-> Max2(st.maxRowCount, Len(c.h[c.a]))],
                myColumnNames, ref, i + 1)

\* id || uniqueKey()
UniqueKey == "highcharts-1"

\* mutant of constructor: this.rowCount is left at 0
constructor_noRowCount(h, keys, ref, id) ==
    LET myColumnNames == ObjectKeys(keys)
        hn == New(h, myColumnNames)
        st == constructorLoop(
                  [h |-> hn, colRef |-> EmptyMap, maxRowCount |-> 0],
                  myColumnNames, ref, 1)
    IN [t |-> [id |-> IF Truthy(id) THEN id ELSE UniqueKey,
               names |-> Alloc(h),
               colKeys |-> myColumnNames,
               colRef |-> st.colRef,
               rowCount |-> 0,
               aliasMap |-> EmptyMap,
               hcEvents |-> EmptyMap],
        h |-> st.h]

\* new DataTable(columns, id): keys/ref are the caller's column collection
\* (key insertion order and arrays); the result is the table and the heap
constructor(h, keys, ref, id) ==
    LET myColumnNames == ObjectKeys(keys)
        hn == New(h, myColumnNames)
        st == constructorLoop(
                  [h |-> hn, colRef |-> EmptyMap, maxRowCount |-> 0],
                  myColumnNames, ref, 1)
    IN [t |-> [id |-> IF Truthy(id) THEN id ELSE UniqueKey,
               names |-> Alloc(h),
               colKeys |-> myColumnNames,
               colRef |-> st.colRef,
               rowCount |-> st.maxRowCount,
               aliasMap |-> EmptyMap,
               hcEvents |-> EmptyMap],
        h |-> st.h]

\* mutant of clear: the alias map is reset too
clear_dropsAliases(t, h) ==
    LET e1 == Ev("clearTable", t, h, <<>>)
        t1 == [t EXCEPT !.colKeys = <<>>, !.colRef = EmptyMap, !.rowCount = 0,
                        !.aliasMap = EmptyMap]
        h1 == [h EXCEPT ![t.names] = <<>>]
        e2 == Ev("afterClearTable", t1, h1, <<>>)
    IN Res(t1, h1, <<e1, e2>>, Undef, <<>>, {})

\* mutant of clear: the pre-event is not emitted
clear_postOnly(t, h) ==
    LET t1 == [t EXCEPT !.colKeys = <<>>, !.colRef = EmptyMap, !.rowCount = 0]
        h1 == [h EXCEPT ![t.names] = <<>>]
    IN Res(t1, h1, <<Ev("afterClearTable", t1, h1, <<>>)>>, Undef, <<>>, {})

\* clear()
clear(t, h) ==
    LET e1 == Ev("clearTable", t, h, <<>>)
        t1 == [t EXCEPT !.colKeys = <<>>, !.colRef = EmptyMap, !.rowCount = 0]
        h1 == [h EXCEPT ![t.names] = <<>>]
        e2 == Ev("afterClearTable", t1, h1, <<>>)
    IN Res(t1, h1, <<e1, e2>>, Undef, <<>>, {})

\* mutant of clearColumn: the events carry the column itself, not a copy
clearColumn_noClone(t, h, columnNameOrAlias) ==
    LET name == Resolve(t, columnNameOrAlias)
        column == ColLookup(t, name)
    IN IF column # 0
       THEN LET e1 == Ev("clearColumn", t, h, h[column])
                h1 == [h EXCEPT ![column] = <<>>]
                e2 == Ev("afterClearColumn", t, h1, h1[column])
            IN Res(t, h1, <<e1, e2>>, Undef, <<>>, {})
       ELSE Res(t, h, <<>>, Undef, <<>>, {})

\* mutant of clearColumn: the events are emitted outside the existence test
clearColumn_emitsAlways(t, h, columnNameOrAlias) ==
    LET name == Resolve(t, columnNameOrAlias)
        column == ColLookup(t, name)
        columnClone == IF column # 0 THEN h[column] ELSE <<>>
        h1 == IF column # 0 THEN [h EXCEPT ![column] = <<>>] ELSE h
    IN Res(t, h1, <<Ev("clearColumn", t, h, columnClone),
                    Ev("afterClearColumn", t, h1, columnClone)>>,
           Undef, <<>>, {})

\* clearColumn(columnNameOrAlias)
clearColumn(t, h, columnNameOrAlias) ==
    LET name == Resolve(t, columnNameOrAlias)
        column == ColLookup(t, name)
    IN IF column # 0
       THEN LET columnClone == h[column]
                e1 == Ev("clearColumn", t, h, columnClone)
                h1 == [h EXCEPT ![column] = <<>>]
                e2 == Ev("afterClearColumn", t, h1, columnClone)
            IN Res(t, h1, <<e1, e2>>, Undef, <<>>, {})
       ELSE Res(t, h, <<>>, Undef, <<>>, {})

\* mutant of clearRows: rowCount is not reset
clearRows_keepsRowCount(t, h) ==
    LET columnNames == h[t.names]
        e1 == Ev("clearRows", t, h, <<>>)
        cleared == {t.colRef[n] : n \in Range(columnNames)}
        h1 == [a \in DOMAIN h |-> IF a \in cleared THEN <<>> ELSE h[a]]
        e2 == Ev("afterClearRows", t, h1, <<>>)
    IN Res(t, h1, <<e1, e2>>, Undef, <<>>, {})

\* clearRows()
clearRows(t, h) ==
    LET columnNames == h[t.names]
        e1 == Ev("clearRows", t, h, <<>>)
        t1 == [t EXCEPT !.rowCount = 0]
        cleared == {t.colRef[n] : n \in Range(columnNames)}
        h1 == [a \in DOMAIN h |-> IF a \in cleared THEN <<>> ELSE h[a]]
        e2 == Ev("afterClearRows", t1, h1, <<>>)
    IN Res(t1, h1, <<e1, e2>>, Undef, <<>>, {})

\* on(type, callback): the callback is added at the end of the list of the
\* event type (the add/fire utility is outside this source; the lists are
\* per event name and in registration order)
on(t, type, callback) ==
    [t EXCEPT !.hcEvents =
        [e \in DOMAIN t.hcEvents \cup {type} |->
            IF e = type
            THEN (IF e \in DOMAIN t.hcEvents THEN t.hcEvents[e] ELSE <<>>)
                     \o <<callback>>
            ELSE t.hcEvents[e]]]

\* emit(e) for each event of evs in turn: the callbacks registered for the
\* event's type are invoked in registration order
RECURSIVE fireEvent(_, _)
fireEvent(hcEvents, evs) ==
    IF evs = <<>> THEN <<>>
    ELSE (IF Head(evs).type \in DOMAIN hcEvents
          THEN [k \in 1..Len(hcEvents[Head(evs).type]) |->
                   [fn |-> hcEvents[Head(evs).type][k], type |-> Head(evs).type]]
          ELSE <<>>)
         \o fireEvent(hcEvents, Tail(evs))

\* mutant of cloneOn: the clone starts without callbacks
cloneOn_none(tableClone, hcEvents) == tableClone

\* lines 343-358 of clone: tableClone.on(eventName, fn) for every callback
\* of every event name of the source, which rebuilds each list in order
cloneOn(tableClone, hcEvents) == [tableClone EXCEPT !.hcEvents = hcEvents]

\* clone(): t is the source, tc the new table; both events are emitted on
\* the source, the second with the new table as payload
clone(t, h) ==
    LET e1 == Ev("cloneTable", t, h, <<>>)
        c == constructor(h, t.colKeys, t.colRef, t.id)
        tableClone == cloneOn([c.t EXCEPT !.aliasMap = t.aliasMap], t.hcEvents)
        e2 == Ev("afterCloneTable", t, c.h, <<View(tableClone, c.h)>>)
    IN [t |-> t, tc |-> tableClone, h |-> c.h, ev |-> <<e1, e2>>]

\* mutant of deleteColumn: the name is resolved through the alias map
deleteColumn_resolvesAlias(t, h, columnName) ==
    LET columnNames == h[t.names]
        name == Resolve(t, columnName)
        deletedColumn == ColLookup(t, name)
    IN IF deletedColumn # 0
       THEN LET e1 == Ev("deleteColumn", t, h, h[deletedColumn])
                h1 == [h EXCEPT ![t.names] =
                          SpliceRest(columnNames, IndexOf(columnNames, name))]
                t1 == [t EXCEPT
                          !.colKeys = KeysDelete(t.colKeys, name),
                          !.colRef = Restrict(t.colRef, DOMAIN t.colRef \ {name})]
                e2 == Ev("afterDeleteColumn", t1, h1, h[deletedColumn])
            IN Res(t1, h1, <<e1, e2>>, "column", h[deletedColumn],
                   {deletedColumn})
       ELSE Res(t, h, <<>>, Undef, <<>>, {})

\* deleteColumn(columnName)
deleteColumn(t, h, columnName) ==
    LET columnNames == h[t.names]
        deletedColumn == ColLookup(t, columnName)
    IN IF deletedColumn # 0
       THEN LET e1 == Ev("deleteColumn", t, h, h[deletedColumn])
                h1 == [h EXCEPT ![t.names] =
                          SpliceRest(columnNames, IndexOf(columnNames, columnName))]
                t1 == [t EXCEPT
                          !.colKeys = KeysDelete(t.colKeys, columnName),
                          !.colRef = Restrict(t.colRef,
                                              DOMAIN t.colRef \ {columnName})]
                e2 == Ev("afterDeleteColumn", t1, h1, h[deletedColumn])
            IN Res(t1, h1, <<e1, e2>>, "column", h[deletedColumn],
                   {deletedColumn})
       ELSE Res(t, h, <<>>, Undef, <<>>, {})

\* deleteColumnAlias(alias)
deleteColumnAlias(t, h, alias) ==
    LET deletedAlias == AliasLookup(t, alias)
    IN IF Truthy(deletedAlias)
       THEN Res([t EXCEPT !.aliasMap =
                    Restrict(t.aliasMap, DOMAIN t.aliasMap \ {alias})],
                h, <<>>, deletedAlias, <<>>, {})
       ELSE Res(t, h, <<>>, Undef, <<>>, {})

\* the cells deleteRow's second loop appends to deletedRow, from column i on
RECURSIVE deleteRowSpliced(_, _, _, _, _)
deleteRowSpliced(t, h, columnNames, rowIndex, i) ==
    IF i > Len(columnNames) THEN <<>>
    ELSE SpliceRemoved(h[t.colRef[columnNames[i]]], rowIndex) \o
         deleteRowSpliced(t, h, columnNames, rowIndex, i + 1)

\* deleteRow(rowIndex)
deleteRow(t, h, rowIndex) ==
    LET columnNames == h[t.names]
    IN IF rowIndex < t.rowCount
       THEN LET pushed == [i \in 1..Len(columnNames) |->
                              ArrGet(h[t.colRef[columnNames[i]]], rowIndex)]
                e1 == Ev("deleteRow", t, h, pushed)
                spliced == {t.colRef[n] : n \in Range(columnNames)}
                h1 == [a \in DOMAIN h |->
                          IF a \in spliced THEN SpliceRest(h[a], rowIndex)
                          ELSE h[a]]
                deletedRow == pushed \o
                    deleteRowSpliced(t, h, columnNames, rowIndex, 1)
                t1 == [t EXCEPT !.rowCount = t.rowCount - 1]
                e2 == Ev("afterDeleteRow", t1, h1, deletedRow)
            IN Res(t1, New(h1, deletedRow), <<e1, e2>>, "row", deletedRow,
                   {Alloc(h1)})
       ELSE Res(t, h, <<>>, Undef, <<>>, {})

\* heap after creating one array per element of contents, from element i on
RECURSIVE NewAll(_, _, _)
NewAll(h, contents, i) ==
    IF i > Len(contents) THEN h ELSE NewAll(New(h, contents[i]), contents, i + 1)

\* getAllColumns(): a new collection holding a slice of every named column
getAllColumns(t, h) ==
    LET columnNames == h[t.names]
        slices == [i \in 1..Len(columnNames) |-> h[t.colRef[columnNames[i]]]]
        h1 == NewAll(h, slices, 1)
    IN Res(t, h1, <<>>, "columns",
           [n \in Range(columnNames) |-> h[t.colRef[n]]],
           DOMAIN h1 \ DOMAIN h)

\* getAllRows(): a new array of new row arrays
getAllRows(t, h) ==
    LET columnNames == h[t.names]
        rows == [i \in 1..t.rowCount |->
                    [j \in 1..Len(columnNames) |->
                        ArrGet(h[t.colRef[columnNames[j]]], i - 1)]]
        h1 == NewAll(h, rows, 1)
    IN Res(t, h1, <<>>, "rows", rows, DOMAIN h1 \ DOMAIN h)

\* mutant of getColumn: the column itself is returned, not a slice
getColumn_noCopy(t, h, columnNameOrAlias) ==
    LET name == Resolve(t, columnNameOrAlias)
        column == ColLookup(t, name)
    IN IF column # 0
       THEN Res(t, h, <<>>, "column", h[column], {column})
       ELSE Res(t, h, <<>>, Undef, <<>>, {})

\* getColumn(columnNameOrAlias)
getColumn(t, h, columnNameOrAlias) ==
    LET name == Resolve(t, columnNameOrAlias)
        column == ColLookup(t, name)
    IN IF column # 0
       THEN Res(t, ArrSlice(h, column).h, <<>>, "column", h[column],
                {ArrSlice(h, column).a})
       ELSE Res(t, h, <<>>, Undef, <<>>, {})

\* getColumnNames() (usePresentationOrder omitted)
getColumnNames(t, h) ==
    Res(t, ArrSlice(h, t.names).h, <<>>, "names", h[t.names],
        {ArrSlice(h, t.names).a})

\* getColumns(columnNamesOrAlias): the found columns under their resolved
\* names, each one a slice
getColumns(t, h, columnNamesOrAlias) ==
    LET resolved == [i \in 1..Len(columnNamesOrAlias) |->
                        Resolve(t, columnNamesOrAlias[i])]
        found == SelectSeq(resolved, LAMBDA n : ColLookup(t, n) # 0)
        h1 == NewAll(h, [i \in 1..Len(found) |-> h[t.colRef[found[i]]]], 1)
    IN Res(t, h1, <<>>, "columns",
           [n \in Range(found) |-> h[t.colRef[n]]], DOMAIN h1 \ DOMAIN h)

\* mutant of RowAt: the row follows Object.keys(columns), not columnNames
RowAt_keyOrder(t, h, rowIndex) ==
    [i \in 1..Len(ObjectKeys(t.colKeys)) |->
        ArrGet(h[t.colRef[ObjectKeys(t.colKeys)[i]]], rowIndex)]

\* the row array getRow(rowIndex) builds
RowAt(t, h, rowIndex) ==
    [i \in 1..Len(h[t.names]) |->
        ArrGet(h[t.colRef[h[t.names][i]]], rowIndex)]

\* getRow(rowIndex)
getRow(t, h, rowIndex) ==
    Res(t, New(h, RowAt(t, h, rowIndex)), <<>>, "row", RowAt(t, h, rowIndex),
        {Alloc(h)})

\* getRowCell(rowIndex, columnNameOrAlias)
getRowCell(t, h, rowIndex, columnNameOrAlias) ==
    LET name == Resolve(t, columnNameOrAlias)
        column == ColLookup(t, name)
    IN IF column # 0 THEN ArrGet(h[column], rowIndex) ELSE Undef

\* mutant of getRowIndexBy: the offset is not passed to indexOf
getRowIndexBy_noOffset(t, h, columnNameOrAlias, cellValue, rowIndexOffset) ==
    LET name == Resolve(t, columnNameOrAlias)
        column == ColLookup(t, name)
        rowIndex == IF column # 0 THEN IndexOf(h[column], cellValue) ELSE -1
    IN IF rowIndex # -1
       THEN Res(t, h, <<>>, "index", <<rowIndex>>, {})
       ELSE Res(t, h, <<>>, Undef, <<>>, {})

\* getRowIndexBy(columnNameOrAlias, cellValue, rowIndexOffset); an omitted
\* offset is indexOf's default 0
getRowIndexBy(t, h, columnNameOrAlias, cellValue, rowIndexOffset) ==
    LET name == Resolve(t, columnNameOrAlias)
        column == ColLookup(t, name)
        rowIndex == IF column # 0
                    THEN IndexOfFrom(h[column], cellValue, rowIndexOffset)
                    ELSE -1
    IN IF rowIndex # -1
       THEN Res(t, h, <<>>, "index", <<rowIndex>>, {})
       ELSE Res(t, h, <<>>, Undef, <<>>, {})

\* hasRowWith(columnNameOrAlias, cellValue)
hasRowWith(t, h, columnNameOrAlias, cellValue) ==
    LET name == Resolve(t, columnNameOrAlias)
        column == ColLookup(t, name)
    IN IF column # 0 /\ IndexOf(h[column], cellValue) # -1
       THEN Res(t, h, <<>>, "true", <<>>, {})
       ELSE Res(t, h, <<>>, "false", <<>>, {})

\* getRowCount()
getRowCount(t) == t.rowCount

\* getRows(rowIndex, rowCount): `new Array(rowCount)` throws a RangeError
\* for a negative length and holds no row arrays, so the first assignment
\* rows[i2][j] = ... throws a TypeError; without that assignment the array
\* of rowCount holes is returned
getRows(t, h, rowIndex, rowCount) ==
    LET columnNamesLength == Len(h[t.names])
        iEnd == Min2(t.rowCount, rowIndex + rowCount)
        rows == [k \in 1..rowCount |-> Undef]
    IN IF rowCount < 0 THEN Res(t, h, <<>>, "RangeError", <<>>, {})
       ELSE IF rowIndex < iEnd /\ columnNamesLength > 0
            THEN Res(t, h, <<>>, "TypeError", <<>>, {})
            ELSE Res(t, New(h, rows), <<>>, "rows", rows, {Alloc(h)})

\* mutant of hasColumn: the argument is looked up without alias resolution
hasColumn_noResolve(t, h, columnNameOrAlias) ==
    IndexOf(h[t.names], columnNameOrAlias) # -1

\* hasColumn(columnNameOrAlias)
hasColumn(t, h, columnNameOrAlias) ==
    IndexOf(h[t.names], Resolve(t, columnNameOrAlias)) # -1

\* mutant of renameColumnNames: the entry is relabelled even when the new
\* name is already in the list
renameColumnNames_relabel(columnNames, columnIndex, newColumnIndex, newColumnName) ==
    ArrSet(columnNames, columnIndex, newColumnName)

\* lines 912-916 of renameColumn: the name list after the rename
renameColumnNames(columnNames, columnIndex, newColumnIndex, newColumnName) ==
    IF newColumnIndex = -1
    THEN ArrSet(columnNames, columnIndex, newColumnName)
    ELSE SpliceRest(columnNames, columnIndex)

\* renameColumn(columnName, newColumnName)
renameColumn(t, h, columnName, newColumnName) ==
    LET columnNames == h[t.names]
        columnIndex == IndexOf(columnNames, columnName)
        newColumnIndex == IndexOf(columnNames, newColumnName)
        aliasMap1 == IF Truthy(AliasLookup(t, newColumnName))
                     THEN Restrict(t.aliasMap, DOMAIN t.aliasMap \ {newColumnName})
                     ELSE t.aliasMap
        names1 == renameColumnNames(columnNames, columnIndex, newColumnIndex,
                                    newColumnName)
        \* columns[newColumnName] = columns[columnName]
        keys1 == KeysSet(t.colKeys, newColumnName)
        ref1 == [n \in DOMAIN t.colRef \cup {newColumnName} |->
                    IF n = newColumnName THEN t.colRef[columnName]
                    ELSE t.colRef[n]]
        \* delete columns[columnName]
        keys2 == KeysDelete(keys1, columnName)
        ref2 == Restrict(ref1, DOMAIN ref1 \ {columnName})
    IN IF columnIndex # -1
       THEN Res([t EXCEPT !.aliasMap = aliasMap1, !.colKeys = keys2,
                          !.colRef = ref2],
                [h EXCEPT ![t.names] = names1], <<>>, "true", <<>>, {})
       ELSE Res(t, h, <<>>, "false", <<>>, {})

\* mutant of setCell: rowCount is set to rowIndex + 1 without the test
setCell_resetsRowCount(t, h, rowIndex, columnNameOrAlias, cellValue) ==
    LET name == Resolve(t, columnNameOrAlias)
        column == ColLookup(t, name)
    IN IF column # 0
       THEN LET e1 == Ev("setCell", t, h, <<cellValue>>)
                t1 == [t EXCEPT !.rowCount = rowIndex + 1]
                h1 == [h EXCEPT ![column] = ArrSet(h[column], rowIndex, cellValue)]
                e2 == Ev("afterSetCell", t1, h1, <<cellValue>>)
            IN Res(t1, h1, <<e1, e2>>, "true", <<>>, {})
       ELSE Res(t, h, <<>>, "false", <<>>, {})

\* mutant of setCell: the column is looked up without alias resolution
setCell_noResolve(t, h, rowIndex, columnNameOrAlias, cellValue) ==
    LET column == ColLookup(t, columnNameOrAlias)
    IN IF column # 0
       THEN LET e1 == Ev("setCell", t, h, <<cellValue>>)
                t1 == IF rowIndex >= t.rowCount
                      THEN [t EXCEPT !.rowCount = rowIndex + 1] ELSE t
                h1 == [h EXCEPT ![column] = ArrSet(h[column], rowIndex, cellValue)]
                e2 == Ev("afterSetCell", t1, h1, <<cellValue>>)
            IN Res(t1, h1, <<e1, e2>>, "true", <<>>, {})
       ELSE Res(t, h, <<>>, "false", <<>>, {})

\* mutant of setCell: rowCount is raised before the pre-event is emitted
setCell_earlyRowCount(t, h, rowIndex, columnNameOrAlias, cellValue) ==
    LET name == Resolve(t, columnNameOrAlias)
        column == ColLookup(t, name)
    IN IF column # 0
       THEN LET t1 == IF rowIndex >= t.rowCount
                      THEN [t EXCEPT !.rowCount = rowIndex + 1] ELSE t
                e1 == Ev("setCell", t1, h, <<cellValue>>)
                h1 == [h EXCEPT ![column] = ArrSet(h[column], rowIndex, cellValue)]
                e2 == Ev("afterSetCell", t1, h1, <<cellValue>>)
            IN Res(t1, h1, <<e1, e2>>, "true", <<>>, {})
       ELSE Res(t, h, <<>>, "false", <<>>, {})

\* setCell(rowIndex, columnNameOrAlias, cellValue)
setCell(t, h, rowIndex, columnNameOrAlias, cellValue) ==
    LET name == Resolve(t, columnNameOrAlias)
        column == ColLookup(t, name)
    IN IF column # 0
       THEN LET e1 == Ev("setCell", t, h, <<cellValue>>)
                t1 == IF rowIndex >= t.rowCount
                      THEN [t EXCEPT !.rowCount = rowIndex + 1] ELSE t
                h1 == [h EXCEPT ![column] = ArrSet(h[column], rowIndex, cellValue)]
                e2 == Ev("afterSetCell", t1, h1, <<cellValue>>)
            IN Res(t1, h1, <<e1, e2>>, "true", <<>>, {})
       ELSE Res(t, h, <<>>, "false", <<>>, {})

\* mutant of setColumnCopy: the caller's array is installed without copy
setColumnCopy_shared(h, a) == [h |-> h, a |-> a]

\* line 1024 of setColumn: column = column.slice()
setColumnCopy(h, a) == ArrSlice(h, a)

\* mutant of setColumn: rowCount is not updated
setColumn_noRowCount(t, h, columnNameOrAlias, column) ==
    LET name == Resolve(t, columnNameOrAlias)
        c == setColumnCopy(h, column)
        e1 == Ev("setColumn", t, c.h, c.h[c.a])
        h1 == IF ColLookup(t, name) = 0
              THEN [c.h EXCEPT ![t.names] = Append(c.h[t.names], name)]
              ELSE c.h
        t1 == [t EXCEPT
                  !.colKeys = KeysSet(t.colKeys, name),
                  !.colRef = [n \in DOMAIN t.colRef \cup {name} |->
                                 IF n = name THEN c.a ELSE t.colRef[n]]]
        e2 == Ev("afterSetColumn", t1, h1, h1[c.a])
    IN Res(t1, h1, <<e1, e2>>, "true", <<>>, {})

\* mutant of setColumn: the name is pushed even when the column exists
setColumn_alwaysPush(t, h, columnNameOrAlias, column) ==
    LET name == Resolve(t, columnNameOrAlias)
        c == setColumnCopy(h, column)
        e1 == Ev("setColumn", t, c.h, c.h[c.a])
        h1 == [c.h EXCEPT ![t.names] = Append(c.h[t.names], name)]
        t1 == [t EXCEPT
                  !.colKeys = KeysSet(t.colKeys, name),
                  !.colRef = [n \in DOMAIN t.colRef \cup {name} |->
                                 IF n = name THEN c.a ELSE t.colRef[n]],
                  !.rowCount = Max2(t.rowCount, Len(c.h[c.a]))]
        e2 == Ev("afterSetColumn", t1, h1, h1[c.a])
    IN Res(t1, h1, <<e1, e2>>, "true", <<>>, {})

\* setColumn(columnNameOrAlias, column): column is the address of the
\* caller's array
setColumn(t, h, columnNameOrAlias, column) ==
    LET name == Resolve(t, columnNameOrAlias)
        c == setColumnCopy(h, column)
        e1 == Ev("setColumn", t, c.h, c.h[c.a])
        h1 == IF ColLookup(t, name) = 0
              THEN [c.h EXCEPT ![t.names] = Append(c.h[t.names], name)]
              ELSE c.h
        t1 == [t EXCEPT
                  !.colKeys = KeysSet(t.colKeys, name),
                  !.colRef = [n \in DOMAIN t.colRef \cup {name} |->
                                 IF n = name THEN c.a ELSE t.colRef[n]],
                  !.rowCount = Max2(t.rowCount, Len(c.h[c.a]))]
        e2 == Ev("afterSetColumn", t1, h1, h1[c.a])
    IN Res(t1, h1, <<e1, e2>>, "true", <<>>, {})

\* setColumnAlias(columnAlias, columnName)
setColumnAlias(t, h, columnAlias, columnName) ==
    IF ~Truthy(AliasLookup(t, columnAlias))
    THEN Res([t EXCEPT !.aliasMap =
                 [a \in DOMAIN t.aliasMap \cup {columnAlias} |->
                     IF a = columnAlias THEN columnName ELSE t.aliasMap[a]]],
             h, <<>>, "true", <<>>, {})
    ELSE Res(t, h, <<>>, "false", <<>>, {})

\* the loop of setColumns over Object.keys(columns), from position i on;
\* r is the result so far, ret "false" standing for failed
RECURSIVE setColumnsLoop(_, _, _, _)
setColumnsLoop(r, columnNames, ref, i) ==
    IF i > Len(columnNames) THEN r
    ELSE LET s == setColumn(r.t, r.h, columnNames[i], ref[columnNames[i]])
         IN setColumnsLoop(
                Res(s.t, s.h, r.ev \o s.ev,
                    IF s.ret # "true" \/ r.ret = "false" THEN "false" ELSE "true",
                    <<>>, {}),
                columnNames, ref, i + 1)

\* setColumns(columns): keys/ref are the caller's collection
setColumns(t, h, keys, ref) ==
    setColumnsLoop(Res(t, h, <<>>, "true", <<>>, {}), ObjectKeys(keys), ref, 1)

\* the loop of setRow over the cells of row, from position i (0-based) on
RECURSIVE setRowLoop(_, _, _, _, _)
setRowLoop(t, h, row, rowIndex, i) ==
    IF i >= Len(row) THEN [t |-> t, h |-> h]
    ELSE LET columnNames == h[t.names]
             columnName == IF Truthy(ArrGet(columnNames, i))
                           THEN ArrGet(columnNames, i) ELSE ToStr(i)
             found == ColLookup(t, columnName)
             column == IF found # 0 THEN found ELSE Alloc(h)
             h1 == IF found # 0 THEN h
                   ELSE [New(h, <<>>) EXCEPT ![t.names] =
                            Append(columnNames, columnName)]
             t1 == IF found # 0 THEN t
                   ELSE [t EXCEPT !.colKeys = KeysSet(t.colKeys, columnName),
                                  !.colRef = t.colRef @@ (columnName :> column)]
             h2 == [h1 EXCEPT ![column] = ArrSet(h1[column], rowIndex, row[i + 1])]
         IN setRowLoop(t1, h2, row, rowIndex, i + 1)

\* setRow(row, rowIndex)
setRow(t, h, row, rowIndex) ==
    LET e1 == Ev("setRow", t, h, row)
        t1 == IF rowIndex >= t.rowCount
              THEN [t EXCEPT !.rowCount = rowIndex + 1] ELSE t
        l == setRowLoop(t1, h, row, rowIndex, 0)
        e2 == Ev("afterSetRow", l.t, l.h, row)
    IN Res(l.t, l.h, <<e1, e2>>, "true", <<>>, {})

\* the loop of setRows from row i (1-based here) on
RECURSIVE setRowsLoop(_, _, _, _)
setRowsLoop(r, rows, rowIndex, i) ==
    IF i > Len(rows) THEN r
    ELSE LET s == setRow(r.t, r.h, rows[i], rowIndex + i - 1)
         IN setRowsLoop(
                Res(s.t, s.h, r.ev \o s.ev,
                    IF s.ret # "true" \/ r.ret = "false" THEN "false" ELSE "true",
                    <<>>, {}),
                rows, rowIndex, i + 1)

\* mutant of setRows: the rows are written from index 0 on
setRows_indexFromZero(t, h, rows, rowIndex) ==
    setRowsLoop(Res(t, h, <<>>, "true", <<>>, {}), rows, 0, 1)

\* setRows(rows, rowIndex)
setRows(t, h, rows, rowIndex) ==
    setRowsLoop(Res(t, h, <<>>, "true", <<>>, {}), rows, rowIndex, 1)

\* lines 401-402 of deleteColumn, run on the table as it is after the
\* pre-event: columnNames.splice(columnNames.indexOf(columnName), 1) and
\* delete columns[columnName]
deleteColumnMutation(t, h, columnName) ==
    [t |-> [t EXCEPT
               !.colKeys = KeysDelete(t.colKeys, columnName),
               !.colRef = Restrict(t.colRef, DOMAIN t.colRef \ {columnName})],
     h |-> [h EXCEPT ![t.names] =
               SpliceRest(h[t.names], IndexOf(h[t.names], columnName))]]

\* deleteColumn(columnName) while a callback of the deleteColumn event calls
\* deleteColumn(inner) on the same table (the callback does not react to
\* the events of its own call)
deleteColumnReentrant(t, h, columnName, inner) ==
    LET deletedColumn == ColLookup(t, columnName)
    IN IF deletedColumn # 0
       THEN LET e1 == Ev("deleteColumn", t, h, h[deletedColumn])
                n == deleteColumn(t, h, inner)
                m == deleteColumnMutation(n.t, n.h, columnName)
                e2 == Ev("afterDeleteColumn", m.t, m.h, h[deletedColumn])
            IN Res(m.t, m.h, <<e1>> \o n.ev \o <<e2>>, "column",
                   h[deletedColumn], {deletedColumn})
       ELSE Res(t, h, <<>>, Undef, <<>>, {})

\* setColumn(columnNameOrAlias, column) while a callback of the setColumn
\* event calls setColumn(e.columnName, inner) on the same table; lines
\* 1033-1038 then run on the table as the callback left it
setColumnReentrant(t, h, columnNameOrAlias, column, inner) ==
    LET name == Resolve(t, columnNameOrAlias)
        c == setColumnCopy(h, column)
        e1 == Ev("setColumn", t, c.h, c.h[c.a])
        n == setColumn(t, c.h, name, inner)
        h1 == IF ColLookup(n.t, name) = 0
              THEN [n.h EXCEPT ![t.names] = Append(n.h[t.names], name)]
              ELSE n.h
        t1 == [n.t EXCEPT
                  !.colKeys = KeysSet(n.t.colKeys, name),
                  !.colRef = [k \in DOMAIN n.t.colRef \cup {name} |->
                                 IF k = name THEN c.a ELSE n.t.colRef[k]],
                  !.rowCount = Max2(n.t.rowCount, Len(c.h[c.a]))]
        e2 == Ev("afterSetColumn", t1, h1, h1[c.a])
    IN Res(t1, h1, <<e1>> \o n.ev \o <<e2>>, "true", <<>>, {})

\* deleteRow(rowIndex) while a callback of the deleteRow event calls
\* deleteRow(inner) on the same table; the second loop (lines 473-476)
\* then runs on the columns as the callback left them
deleteRowReentrant(t, h, rowIndex, inner) ==
    LET columnNames == h[t.names]
    IN IF rowIndex < t.rowCount
       THEN LET pushed == [i \in 1..Len(columnNames) |->
                              ArrGet(h[t.colRef[columnNames[i]]], rowIndex)]
                e1 == Ev("deleteRow", t, h, pushed)
                n == deleteRow(t, h, inner)
                spliced == {n.t.colRef[k] : k \in Range(n.h[t.names])}
                h1 == [a \in DOMAIN n.h |->
                          IF a \in spliced THEN SpliceRest(n.h[a], rowIndex)
                          ELSE n.h[a]]
                deletedRow == pushed \o
                    deleteRowSpliced(n.t, n.h, n.h[t.names], rowIndex, 1)
                t1 == [n.t EXCEPT !.rowCount = n.t.rowCount - 1]
                e2 == Ev("afterDeleteRow", t1, h1, deletedRow)
            IN Res(t1, New(h1, deletedRow), <<e1>> \o n.ev \o <<e2>>, "row",
                   deletedRow, {Alloc(h1)})
       ELSE Res(t, h, <<>>, Undef, <<>>, {})

\* toJSON(): the columns object (key order and arrays by value) and the id;
\* no aliasMap member is written
toJSON(t, h) ==
    LET columnNames == h[t.names]
    IN [class |-> "DataTable",
        id |-> t.id,
        keys |-> columnNames,
        columns |-> [n \in Range(columnNames) |->
                        [j \in 1..t.rowCount |-> ArrGet(h[t.colRef[n]], j - 1)]],
        hasAliasMap |-> FALSE,
        aliasMap |-> EmptyMap]

\* DataTable.fromJSON(json): the new table and the heap
fromJSON(h, json) ==
    LET columnNames == ObjectKeys(json.keys)
        h1 == NewAll(h, [i \in 1..Len(columnNames) |->
                            json.columns[columnNames[i]]], 1)
        ref == [n \in Range(columnNames) |->
                   CHOOSE a \in DOMAIN h1 \ DOMAIN h :
                       Cardinality({b \in DOMAIN h1 \ DOMAIN h : b < a}) + 1
                           = IndexOf(columnNames, n) + 1]
        c == constructor(h1, columnNames, ref, json.id)
    IN [t |-> IF json.hasAliasMap
              THEN [c.t EXCEPT !.aliasMap = json.aliasMap] ELSE c.t,
        h |-> c.h]

\* ------------------------------------------------------------------- state
\* tables: the tables alive, "T" the constructed one and "C" its clone
\* heap:   the arrays (name lists, columns, arrays held by the caller)
\* held:   addresses of the arrays the caller holds (arrays it passed in or
\*         was handed back by the last call that returned arrays)
\* last:   the last call: operation, target, arguments, result, the events
\*         a recording subscriber observed, the target's view before it
\* heldFrom: the call that gave the caller the arrays it holds
\* steps:  number of calls made
VARIABLES tables, heap, held, heldFrom, last, steps, chart

vars == <<tables, heap, held, heldFrom, last, steps, chart>>

\* no chart: the table is used on its own
NoChart ==
    [collected |-> <<>>, labels |-> <<>>, elements |-> <<>>, events |-> <<>>]

\* caller-side column collections: key insertion order and contents
InCollections ==
    {[keys |-> <<>>, cols |-> EmptyMap],
     [keys |-> <<"x">>, cols |-> [n \in {"x"} |-> <<"v1", "v2">>]],
     [keys |-> <<"x", "0">>,
      cols |-> [n \in {"x", "0"} |-> IF n = "x" THEN <<"v1">> ELSE <<"v2", "v1">>]]}

InRowLists == {<<<<"v1">>, <<"v2", "v1">>>>, <<<<"v2">>>>}

InNameLists == {<<"x", "a">>, <<"0">>}

\* the caller's arrays of a collection, created on heap h
CallerHeap(h, coll) ==
    NewAll(h, [i \in 1..Len(coll.keys) |-> coll.cols[coll.keys[i]]], 1)

\* the addresses of those arrays, by key
CallerRef(h, coll) ==
    [n \in Range(coll.keys) |->
        CHOOSE a \in DOMAIN CallerHeap(h, coll) \ DOMAIN h :
            Cardinality({b \in DOMAIN CallerHeap(h, coll) \ DOMAIN h : b < a})
                = IndexOf(coll.keys, n)]

\* addresses reachable from the tables and the caller
Roots(ts, hd) ==
    hd \cup UNION {{ts[w].names} \cup {ts[w].colRef[n] : n \in DOMAIN ts[w].colRef}
                   : w \in DOMAIN ts}

\* garbage collection: only reachable arrays stay on the heap
GC(h, roots) == Restrict(h, roots \cap DOMAIN h)

\* record of a call; calls are the callback invocations its events caused
Call(op, target, name, name2, idx, data, r, pre) ==
    [op |-> op, on |-> target, name |-> name, name2 |-> name2, idx |-> idx,
     data |-> data, ret |-> r.ret, val |-> r.val, events |-> r.ev, pre |-> pre,
     calls |-> IF target \in DOMAIN tables
               THEN fireEvent(tables[target].hcEvents, r.ev) ELSE <<>>]

NoHeap == [a \in {} |-> <<>>]

Init ==
    \E coll \in InCollections :
        LET h0 == CallerHeap(NoHeap, coll)
            c == constructor(h0, coll.keys, CallerRef(NoHeap, coll), Undef)
        IN /\ tables = [w \in {"T"} |-> c.t]
           /\ held = DOMAIN h0
           /\ heldFrom = "new"
           /\ heap = GC(c.h, Roots([w \in {"T"} |-> c.t], DOMAIN h0))
           /\ last = Call("new", "T", "", "", 0, <<>>,
                          Res(c.t, c.h, <<>>, Undef, <<>>, {}), Undef)
           /\ steps = 0
           /\ chart = NoChart

\* a call on table w with result r; hd is what the caller holds afterwards
Step(w, r, hd, call) ==
    /\ steps < MaxSteps
    /\ steps' = steps + 1
    /\ tables' = [tables EXCEPT ![w] = r.t]
    /\ held' = hd
    /\ heldFrom' = IF hd = held THEN heldFrom ELSE call.op
    /\ heap' = GC(r.h, Roots([tables EXCEPT ![w] = r.t], hd))
    /\ last' = call
    /\ chart' = chart

\* what the caller holds after a call that returned the arrays refs
Holds(refs) == IF refs = {} THEN held ELSE refs

Pre(w) == View(tables[w], heap)

Clear ==
    \E w \in DOMAIN tables :
        LET r == clear(tables[w], heap)
        IN Step(w, r, held, Call("clear", w, "", "", 0, <<>>, r, Pre(w)))

ClearColumn ==
    \E w \in DOMAIN tables, n \in Names :
        LET r == clearColumn(tables[w], heap, n)
        IN Step(w, r, held, Call("clearColumn", w, n, "", 0, <<>>, r, Pre(w)))

ClearRows ==
    \E w \in DOMAIN tables :
        LET r == clearRows(tables[w], heap)
        IN Step(w, r, held, Call("clearRows", w, "", "", 0, <<>>, r, Pre(w)))

Clone ==
    /\ DOMAIN tables = {"T"}
    /\ steps < MaxSteps
    /\ LET r == clone(tables["T"], heap)
       IN /\ tables' = [w \in {"T", "C"} |-> IF w = "T" THEN r.t ELSE r.tc]
          /\ held' = held
          /\ heldFrom' = heldFrom
          /\ heap' = GC(r.h, Roots([w \in {"T", "C"} |->
                                       IF w = "T" THEN r.t ELSE r.tc], held))
          /\ last' = Call("clone", "T", "", "", 0, <<>>,
                          Res(r.t, r.h, r.ev, "table", <<>>, {}), Pre("T"))
          /\ steps' = steps + 1
          /\ chart' = chart

DeleteColumn ==
    \E w \in DOMAIN tables, n \in Names :
        LET r == deleteColumn(tables[w], heap, n)
        IN Step(w, r, Holds(r.refs),
                Call("deleteColumn", w, n, "", 0, <<>>, r, Pre(w)))

DeleteColumnAlias ==
    \E w \in DOMAIN tables, a \in AliasKeys :
        LET r == deleteColumnAlias(tables[w], heap, a)
        IN Step(w, r, held, Call("deleteColumnAlias", w, a, "", 0, <<>>, r, Pre(w)))

DeleteRow ==
    \E w \in DOMAIN tables, i \in RowIndices :
        LET r == deleteRow(tables[w], heap, i)
        IN Step(w, r, Holds(r.refs),
                Call("deleteRow", w, "", "", i, <<>>, r, Pre(w)))

RenameColumn ==
    \E w \in DOMAIN tables, n \in Names, m \in Names :
        LET r == renameColumn(tables[w], heap, n, m)
        IN Step(w, r, held, Call("renameColumn", w, n, m, 0, <<>>, r, Pre(w)))

SetCell ==
    \E w \in DOMAIN tables, i \in RowIndices, n \in Names, v \in InCells :
        LET r == setCell(tables[w], heap, i, n, v)
        IN Step(w, r, held, Call("setCell", w, n, "", i, <<v>>, r, Pre(w)))

SetColumn ==
    \E w \in DOMAIN tables, n \in Names, col \in InColumns :
        LET r == setColumn(tables[w], New(heap, col), n, Alloc(heap))
        IN Step(w, r, {Alloc(heap)},
                Call("setColumn", w, n, "", 0, col, r, Pre(w)))

SetColumnAlias ==
    \E w \in DOMAIN tables, a \in AliasKeys, n \in AliasTargets :
        LET r == setColumnAlias(tables[w], heap, a, n)
        IN Step(w, r, held, Call("setColumnAlias", w, a, n, 0, <<>>, r, Pre(w)))

SetColumns ==
    \E w \in DOMAIN tables, coll \in InCollections :
        LET r == setColumns(tables[w], CallerHeap(heap, coll), coll.keys,
                            CallerRef(heap, coll))
        IN Step(w, r, DOMAIN CallerHeap(heap, coll) \ DOMAIN heap,
                Call("setColumns", w, "", "", 0, coll.keys, r, Pre(w)))

SetRow ==
    \E w \in DOMAIN tables, row \in InRows :
        \E i \in RowIndices \cup {tables[w].rowCount} :
            LET r == setRow(tables[w], heap, row, i)
            IN Step(w, r, held, Call("setRow", w, "", "", i, row, r, Pre(w)))

SetRows ==
    \E w \in DOMAIN tables, rows \in InRowLists :
        \E i \in RowIndices \cup {tables[w].rowCount} :
            LET r == setRows(tables[w], heap, rows, i)
            IN Step(w, r, held, Call("setRows", w, "", "", i, rows, r, Pre(w)))

GetAllColumns ==
    \E w \in DOMAIN tables :
        LET r == getAllColumns(tables[w], heap)
        IN Step(w, r, Holds(r.refs),
                Call("getAllColumns", w, "", "", 0, <<>>, r, Pre(w)))

GetAllRows ==
    \E w \in DOMAIN tables :
        LET r == getAllRows(tables[w], heap)
        IN Step(w, r, Holds(r.refs),
                Call("getAllRows", w, "", "", 0, <<>>, r, Pre(w)))

GetColumn ==
    \E w \in DOMAIN tables, n \in Names :
        LET r == getColumn(tables[w], heap, n)
        IN Step(w, r, Holds(r.refs),
                Call("getColumn", w, n, "", 0, <<>>, r, Pre(w)))

GetColumnNames ==
    \E w \in DOMAIN tables :
        LET r == getColumnNames(tables[w], heap)
        IN Step(w, r, Holds(r.refs),
                Call("getColumnNames", w, "", "", 0, <<>>, r, Pre(w)))

GetColumns ==
    \E w \in DOMAIN tables, ns \in InNameLists :
        LET r == getColumns(tables[w], heap, ns)
        IN Step(w, r, Holds(r.refs),
                Call("getColumns", w, "", "", 0, ns, r, Pre(w)))

GetRow ==
    \E w \in DOMAIN tables, i \in RowIndices :
        LET r == getRow(tables[w], heap, i)
        IN Step(w, r, Holds(r.refs),
                Call("getRow", w, "", "", i, <<>>, r, Pre(w)))

\* getRows(), getRows(i) and getRows(i, n): an omitted rowCount defaults to
\* this.rowCount - rowIndex
GetRows ==
    \E w \in DOMAIN tables, i \in RowIndices :
        \E n \in {tables[w].rowCount - i} \cup RowIndices :
            LET r == getRows(tables[w], heap, i, n)
            IN Step(w, r, Holds(r.refs),
                    Call("getRows", w, "", "", i, <<n>>, r, Pre(w)))

\* the caller modifies an array it holds: writes an element or truncates it
ModifyHeld ==
    /\ steps < MaxSteps
    /\ \E a \in held, i \in RowIndices, v \in InCells \cup {Undef} :
          /\ heap' = [heap EXCEPT ![a] =
                         IF v = Undef THEN <<>> ELSE ArrSet(heap[a], i, v)]
          /\ last' = [op |-> "modify", on |-> "caller", name |-> "",
                      name2 |-> "", idx |-> i, data |-> <<v>>, ret |-> Undef,
                      val |-> <<>>, events |-> <<>>, pre |-> Undef,
                      calls |-> <<>>]
    /\ steps' = steps + 1
    /\ UNCHANGED <<tables, held, heldFrom, chart>>

\* what the round-trip property compares: id, names, all rows, aliases
Facts(t, h) ==
    [id |-> t.id, names |-> h[t.names], rows |-> getAllRows(t, h).val,
     aliasMap |-> t.aliasMap]

\* DataTable.fromJSON(table.toJSON()); the new table is read and dropped
RoundTrip ==
    /\ steps < MaxSteps
    /\ \E w \in DOMAIN tables :
          LET j == fromJSON(heap, toJSON(tables[w], heap))
          IN last' = [op |-> "roundTrip", on |-> w, name |-> "", name2 |-> "",
                      idx |-> 0, data |-> <<>>, ret |-> "table",
                      val |-> Facts(j.t, j.h), events |-> <<>>,
                      pre |-> Pre(w), calls |-> <<>>]
    /\ steps' = steps + 1
    /\ UNCHANGED <<tables, heap, held, heldFrom, chart>>

Next ==
    \/ Clear
    \/ ClearColumn
    \/ ClearRows
    \/ Clone
    \/ DeleteColumn
    \/ DeleteColumnAlias
    \/ DeleteRow
    \/ RenameColumn
    \/ SetCell
    \/ SetColumn
    \/ SetColumnAlias
    \/ SetColumns
    \/ SetRow
    \/ SetRows
    \/ GetAllColumns
    \/ GetAllRows
    \/ GetColumn
    \/ GetColumnNames
    \/ GetColumns
    \/ GetRow
    \/ GetRows
    \/ ModifyHeld
    \/ RoundTrip

Spec == Init /\ [][Next]_vars

\* a serialized table with two columns of different length and two aliases,
\* one of them registered under the name of a column
InJSON ==
    [class |-> "DataTable",
     id |-> "t1",
     keys |-> <<"x", "0">>,
     columns |-> [n \in {"x", "0"} |->
                     IF n = "x" THEN <<"v1", "v2">> ELSE <<"v2">>],
     hasAliasMap |-> TRUE,
     aliasMap |-> [a \in {"a", "x"} |-> IF a = "a" THEN "x" ELSE "0"]]

\* the state after DataTable.fromJSON(InJSON)
InitJSON ==
    LET c == fromJSON(NoHeap, InJSON)
    IN /\ tables = [w \in {"T"} |-> c.t]
       /\ held = {}
       /\ heldFrom = "fromJSON"
       /\ heap = GC(c.h, Roots([w \in {"T"} |-> c.t], {}))
       /\ last = Call("fromJSON", "T", "", "", 0, <<>>,
                      Res(c.t, c.h, <<>>, Undef, <<>>, {}), Undef)
       /\ steps = 0
       /\ chart = NoChart

\* the same operations on a table that was deserialized
SpecJSON == InitJSON /\ [][Next]_vars

\* number of callbacks registered on a table
RECURSIVE Registered(_)
Registered(hcEvents) ==
    IF DOMAIN hcEvents = {} THEN 0
    ELSE LET e == CHOOSE x \in DOMAIN hcEvents : TRUE
         IN Len(hcEvents[e])
                + Registered(Restrict(hcEvents, DOMAIN hcEvents \ {e}))

\* the largest number of callbacks registered on one table
ByCaller ==
    IF "C" \in DOMAIN tables
    THEN Max2(Registered(tables["T"].hcEvents), Registered(tables["C"].hcEvents))
    ELSE Registered(tables["T"].hcEvents)

\* table.on(type, callback) by the caller; registration is not counted as a
\* call of the run, the number of callbacks on a table is bounded instead
On ==
    \E w \in DOMAIN tables, type \in InEventTypes, fn \in InCallbacks :
        /\ ByCaller < MaxCallbacks
        /\ tables' = [tables EXCEPT ![w] = on(tables[w], type, fn)]
        /\ last' = [op |-> "on", on |-> w, name |-> type, name2 |-> fn,
                    idx |-> 0, data |-> <<>>, ret |-> "function", val |-> <<>>,
                    events |-> <<>>, pre |-> Pre(w), calls |-> <<>>]
        /\ UNCHANGED <<heap, held, heldFrom, steps, chart>>

NextEvents ==
    \/ On
    \/ Clone
    \/ Clear
    \/ DeleteRow

\* a deserialized table whose caller registers callbacks, clones it, and
\* clears either table or deletes rows of it
SpecEvents == InitJSON /\ [][NextEvents]_vars

GetRowIndexBy ==
    \E w \in DOMAIN tables, n \in Names, v \in InCells, o \in Offsets :
        LET r == getRowIndexBy(tables[w], heap, n, v, o)
        IN Step(w, r, held, Call("getRowIndexBy", w, n, "", o, <<v>>, r, Pre(w)))

HasRowWith ==
    \E w \in DOMAIN tables, n \in Names, v \in InCells :
        LET r == hasRowWith(tables[w], heap, n, v)
        IN Step(w, r, held, Call("hasRowWith", w, n, "", 0, <<v>>, r, Pre(w)))

NextQuery ==
    \/ SetCell
    \/ DeleteRow
    \/ GetRowIndexBy
    \/ HasRowWith

\* a deserialized table whose cells are written, whose rows are deleted and
\* which is searched for cell values
SpecQuery == InitJSON /\ [][NextQuery]_vars

DeleteColumnReentrant ==
    \E w \in DOMAIN tables, n \in Names, m \in Names :
        LET r == deleteColumnReentrant(tables[w], heap, n, m)
        IN Step(w, r, Holds(r.refs),
                Call("deleteColumnReentrant", w, n, m, 0, <<>>, r, Pre(w)))

SetColumnReentrant ==
    \E w \in DOMAIN tables, n \in Names, col \in InColumns, col2 \in InColumns :
        LET h1 == New(heap, col)
            h2 == New(h1, col2)
            r == setColumnReentrant(tables[w], h2, n, Alloc(heap), Alloc(h1))
        IN Step(w, r, {Alloc(heap), Alloc(h1)},
                Call("setColumnReentrant", w, n, "", 0, col, r, Pre(w)))

DeleteRowReentrant ==
    \E w \in DOMAIN tables, i \in RowIndices, j \in RowIndices :
        LET r == deleteRowReentrant(tables[w], heap, i, j)
        IN Step(w, r, Holds(r.refs),
                Call("deleteRowReentrant", w, "", "", i, <<j>>, r, Pre(w)))

NextReentrant ==
    \/ DeleteColumnReentrant
    \/ SetColumnReentrant
    \/ DeleteRowReentrant

\* a deserialized table whose callbacks call back into the table while a
\* pre-event is delivered
SpecReentrant == InitJSON /\ [][NextReentrant]_vars

\* row indices a caller may pass to deleteRow: any integer, negative included
SignedRowIndices == (0 - MaxRowIndex - 1)..MaxRowIndex

DeleteRowSigned ==
    \E w \in DOMAIN tables, i \in SignedRowIndices :
        LET r == deleteRow(tables[w], heap, i)
        IN Step(w, r, Holds(r.refs),
                Call("deleteRow", w, "", "", i, <<>>, r, Pre(w)))

NextSigned == DeleteRowSigned \/ ClearRows \/ SetColumn

\* a table whose caller passes row indices of either sign
SpecSigned == Init /\ [][NextSigned]_vars

\* ---------------------------------------------- overlapping data labels
\* A label is a record; an absent labelrank, oldOpacity, newOpacity or
\* absoluteBox is the empty sequence, a present one a sequence of one
\* element.  chart.elements holds the label objects, chart.collected the
\* references (indices into elements) in the order a render collects them,
\* chart.labels the array of the last pass as hideOverlappingLabels left
\* it, chart.events the chart events of the last pass.
MaxLabels == 3

isIntersectRect_origin(box1, box2) == ~(box2.x >= box1.x + box1.width \/ box2.x <= box1.x \/ box2.y >= box1.y + box1.height \/ box2.y + box2.height <= box1.y)
isIntersectRect(box1, box2) ==
    ~(\/ box2.x >= box1.x + box1.width
      \/ box2.x + box2.width <= box1.x
      \/ box2.y >= box1.y + box1.height
      \/ box2.y + box2.height <= box1.y)

\* getAbsoluteBox(label) for a label that has alignAttr, a width and no x
\* of its own: no line height correction, xOffset from alignValue only
getAbsoluteBox(label) ==
    LET padding == IF label.box THEN 0 ELSE label.padding
        boxWidth == label.width - 2 * padding
        xOffset == IF label.alignValue = "right" THEN boxWidth ELSE 0
    IN IF label.placed
       THEN <<[x |-> label.alignAttr.x + label.translateX + padding - xOffset,
               y |-> label.alignAttr.y + label.translateY + padding,
               width |-> boxWidth,
               height |-> label.height - 2 * padding]>>
       ELSE <<>>

\* the first loop: oldOpacity, newOpacity and absoluteBox of every label
markLabels(labels, elements) ==
    [e \in DOMAIN elements |->
        IF e \in Range(labels)
        THEN [elements[e] EXCEPT !.oldOpacity = <<elements[e].opacity>>,
                                 !.newOpacity = <<1>>,
                                 !.absoluteBox = getAbsoluteBox(elements[e])]
        ELSE elements[e]]

\* label.labelrank || 0
RankOrZero(label) == IF label.labelrank = <<>> THEN 0 ELSE label.labelrank[1]

\* labels.sort(...) by descending labelrank || 0, stable: the labels of
\* the array from position i on, inserted one by one into sorted
RECURSIVE labelsSortFrom(_, _, _, _)
labelsSortFrom(labels, elements, i, sorted) ==
    IF i > Len(labels) THEN sorted
    ELSE LET k == Cardinality({j \in 1..Len(sorted) :
                      RankOrZero(elements[sorted[j]]) >=
                          RankOrZero(elements[labels[i]])})
         IN labelsSortFrom(labels, elements, i + 1,
                SubSeq(sorted, 1, k) \o <<labels[i]>> \o
                SubSeq(sorted, k + 1, Len(sorted)))

labelsSort_unsorted(labels, elements) == labels
labelsSort(labels, elements) == labelsSortFrom(labels, elements, 1, <<>>)

\* label1.labelrank < label2.labelrank, false when either is undefined
RankLess(label1, label2) ==
    /\ label1.labelrank # <<>>
    /\ label2.labelrank # <<>>
    /\ label1.labelrank[1] < label2.labelrank[1]

\* the detection loops from the pair (i, j) on; positions count from 1
RECURSIVE detectOverlapping(_, _, _, _)
detectOverlapping(labels, elements, i, j) ==
    IF i > Len(labels) THEN elements
    ELSE IF j > Len(labels)
    THEN detectOverlapping(labels, elements, i + 1, i + 2)
    ELSE LET label1 == elements[labels[i]]
             label2 == elements[labels[j]]
             box1 == label1.absoluteBox
             box2 == label2.absoluteBox
             hit == /\ box1 # <<>>
                    /\ box2 # <<>>
                    /\ labels[i] # labels[j]
                    /\ label1.newOpacity # <<0>>
                    /\ label2.newOpacity # <<0>>
                    /\ label1.visibility # "hidden"
                    /\ label2.visibility # "hidden"
                    /\ isIntersectRect(box1[1], box2[1])
             hidden == IF RankLess(label1, label2) THEN labels[i]
                       ELSE labels[j]
         IN detectOverlapping(labels,
                IF hit THEN [elements EXCEPT ![hidden].newOpacity = <<0>>]
                ELSE elements, i, j + 1)

\* hideOrShow(label, chart) for the labels of the array from position i on
RECURSIVE hideOrShowFrom(_, _, _, _)
hideOrShowFrom(labels, elements, i, events) ==
    IF i > Len(labels) THEN [elements |-> elements, events |-> events]
    ELSE LET label == elements[labels[i]]
             changed == label.oldOpacity # label.newOpacity
             shown == [label EXCEPT
                          !.opacity = IF changed THEN label.newOpacity[1]
                                      ELSE label.opacity,
                          !.isOld = TRUE]
         IN hideOrShowFrom(labels, [elements EXCEPT ![labels[i]] = shown],
                i + 1,
                IF changed /\ label.placed
                THEN Append(events, "afterHideOverlappingLabel")
                ELSE events)

\* Chart.prototype.hideOverlappingLabels(labels)
hideOverlappingLabels(labels, elements) ==
    LET marked == markLabels(labels, elements)
        sorted == labelsSort(labels, marked)
        detected == detectOverlapping(sorted, marked, 1, 2)
        shown == hideOrShowFrom(sorted, detected, 1, <<>>)
    IN [labels |-> sorted,
        elements |-> shown.elements,
        events |-> IF shown.events # <<>>
                   THEN Append(shown.events, "afterHideAllOverlappingLabels")
                   ELSE shown.events]

\* a rendered data label of 4 by 4 with padding 1 and no border box
Label(x, y, labelrank, placed, visibility) ==
    [alignAttr |-> [x |-> x, y |-> y], placed |-> placed,
     translateX |-> 0, translateY |-> 0, box |-> FALSE, padding |-> 1,
     width |-> 4, height |-> 4, alignValue |-> "left",
     visibility |-> visibility, labelrank |-> labelrank, opacity |-> 1,
     oldOpacity |-> <<>>, newOpacity |-> <<>>, absoluteBox |-> <<>>,
     isOld |-> FALSE]

InPositions == {<<0, 0>>, <<1, 0>>, <<2, 0>>, <<1, 2>>}
InRanks == {<<>>, <<1>>}

\* placed visible labels, one label not placed yet and one hidden label
InLabels ==
    {Label(p[1], p[2], r, TRUE, "inherit") : p \in InPositions, r \in InRanks}
        \cup {Label(1, 0, <<1>>, FALSE, "inherit"),
              Label(1, 0, <<1>>, TRUE, "hidden")}

\* a chart with MaxLabels labels that was not rendered yet; with
\* connectEnds the first label is collected again at the end
InitLabels ==
    \E elements \in [1..MaxLabels -> InLabels], connectEnds \in BOOLEAN :
        /\ chart = [collected |->
                        [i \in 1..MaxLabels |-> i] \o
                            (IF connectEnds THEN <<1>> ELSE <<>>),
                    labels |-> <<>>, elements |-> elements, events |-> <<>>]
        /\ tables = [w \in {} |-> NoChart]
        /\ heap = NoHeap
        /\ held = {}
        /\ heldFrom = "new"
        /\ last = [op |-> "new", on |-> "chart", name |-> "", name2 |-> "",
                   idx |-> 0, data |-> <<>>, ret |-> Undef, val |-> <<>>,
                   events |-> <<>>, pre |-> Undef, calls |-> <<>>]
        /\ steps = 0

\* the render handler collectAndHide: the labels are collected into a new
\* array and handed to hideOverlappingLabels
Render ==
    /\ steps < MaxSteps
    /\ LET r == hideOverlappingLabels(chart.collected, chart.elements)
       IN /\ chart' = [chart EXCEPT !.labels = r.labels,
                                    !.elements = r.elements,
                                    !.events = r.events]
          /\ last' = [last EXCEPT !.op = "render", !.events = r.events]
    /\ steps' = steps + 1
    /\ UNCHANGED <<tables, heap, held, heldFrom>>

NextLabels == Render

SpecLabels == InitLabels /\ [][NextLabels]_vars

NextCaller ==
    \/ SetColumn
    \/ SetColumns
    \/ GetColumn
    \/ ModifyHeld

\* a table constructed from the caller's arrays, whose caller sets columns,
\* reads them and modifies the arrays it holds
SpecCaller == Init /\ [][NextCaller]_vars

\* ---------------------------------------------------------------- sanity
TypeOK ==
    /\ DOMAIN tables \subseteq {"T", "C"}
    /\ \A w \in DOMAIN tables :
          /\ tables[w].names \in DOMAIN heap
          /\ \A n \in DOMAIN tables[w].colRef : tables[w].colRef[n] \in DOMAIN heap
    /\ held \subseteq DOMAIN heap

\* ------------------------------------------------------- claim vocabulary
NoDuplicates(s) == \A i, j \in 1..Len(s) : i # j => s[i] # s[j]

\* the table the last call acted on, as read now
Now == View(tables[last.on], heap)

\* names, columns and rowCount of a view
Data(v) == [names |-> v.names, columns |-> v.columns, rowCount |-> v.rowCount]

\* operations that emit one pre/post pair per call
BracketOps ==
    {"clear", "clearRows", "clearColumn", "deleteColumn", "deleteRow",
     "setCell", "setColumn", "setRow"}

\* operations that change a table without emitting
SilentOps == {"renameColumn", "setColumnAlias", "deleteColumnAlias"}

MutatorOps == BracketOps \cup SilentOps \cup {"setColumns", "setRows"}

GetterOps ==
    {"getColumn", "getColumns", "getAllColumns", "getColumnNames", "getRow",
     "getAllRows"}

\* the pre-event `<verb>` of an operation
PreEvent(op) == IF op = "clear" THEN "clearTable" ELSE op

\* the post-event `after<Verb>` of an operation
PostEvent(op) ==
    CASE op = "clear" -> "afterClearTable"
      [] op = "clearRows" -> "afterClearRows"
      [] op = "clearColumn" -> "afterClearColumn"
      [] op = "deleteColumn" -> "afterDeleteColumn"
      [] op = "deleteRow" -> "afterDeleteRow"
      [] op = "setCell" -> "afterSetCell"
      [] op = "setColumn" -> "afterSetColumn"
      [] op = "setRow" -> "afterSetRow"
      [] OTHER -> "none"

EventTypes(evs) == [i \in 1..Len(evs) |-> evs[i].type]

\* n times the pair <<a, b>>
RECURSIVE Pairs(_, _, _)
Pairs(a, b, n) == IF n = 0 THEN <<>> ELSE <<a, b>> \o Pairs(a, b, n - 1)

\* alias resolution on a recorded view
ResolveIn(v, s) ==
    IF s \in DOMAIN v.aliasMap /\ Truthy(v.aliasMap[s]) THEN v.aliasMap[s] ELSE s

\* ---------------------------------------------------------------- claims

C2_Original ==
    (last.op \in MutatorOps /\ Now # last.pre)
        => EventTypes(last.events) = <<PreEvent(last.op), PostEvent(last.op)>>

\* C2 amended: the eight bracketed operations emit exactly their pair when
\* they change the table and change nothing without emitting; setColumns
\* and setRows emit one setColumn/setRow pair per item; renameColumn and
\* the alias mutators emit nothing.
C2_Bracket ==
    /\ last.op \in BracketOps =>
          \/ EventTypes(last.events) = <<PreEvent(last.op), PostEvent(last.op)>>
          \/ last.events = <<>> /\ Now = last.pre
    /\ last.op = "setColumns" =>
          EventTypes(last.events)
              = Pairs("setColumn", "afterSetColumn", Len(last.data))
    /\ last.op = "setRows" =>
          EventTypes(last.events) = Pairs("setRow", "afterSetRow", Len(last.data))
    /\ last.op \in SilentOps => last.events = <<>>

\* C2 witness: a bracketed call changed the table, and so did a silent one.
C2_Witness ==
    \/ last.op = "deleteRow" /\ Now # last.pre /\ Len(last.events) = 2
    \/ last.op = "setRows" /\ Len(last.events) = 4

\* C3: for the eight bracketed operations the subscriber reads, during the
\* pre-event, names, columns and rowCount as before the call, and during
\* the post-event as they are when the call returns.
C3_MutationBetweenEvents ==
    (last.op \in BracketOps /\ last.events # <<>>) =>
        /\ Data(last.events[1].view) = Data(last.pre)
        /\ Data(last.events[Len(last.events)].view) = Data(Now)

\* C3 witness: a bracketed call whose two events saw different tables.
C3_Witness ==
    /\ last.op \in {"setCell", "deleteRow", "setColumn"}
    /\ Len(last.events) = 2
    /\ Data(last.events[1].view) # Data(last.events[2].view)

\* the call's target was unresolvable in the table as it was before the call
Unresolved ==
    \/ /\ last.op \in {"setCell", "clearColumn"}
       /\ ResolveIn(last.pre, last.name) \notin DOMAIN last.pre.columns
    \/ /\ last.op \in {"deleteColumn", "renameColumn"}
       /\ last.name \notin DOMAIN last.pre.columns
    \/ /\ last.op = "deleteRow"
       /\ last.idx >= last.pre.rowCount

C5_RoundTrip ==
    last.op = "roundTrip" => last.val = Facts(tables[last.on], heap)

\* C6: once T has been cloned, a mutation of one of the two tables leaves
\* the column names, columns and rowCount of the other as they were.
C6_CloneIsolation ==
    [][(last'.op \in MutatorOps /\ DOMAIN tables = {"T", "C"}) =>
          \A w \in {"T", "C"} \ {last'.on} :
              Data(View(tables'[w], heap')) = Data(View(tables[w], heap))]_vars

\* C6 witness: a cell of the clone has been overwritten in place while the
\* source still has that column.
C6_Witness ==
    /\ DOMAIN tables = {"T", "C"}
    /\ last.on = "C"
    /\ last.op \in {"setCell", "deleteRow", "clearColumn"}
    /\ Data(Now) # Data(last.pre)
    /\ tables["T"].colRef # EmptyMap

\* C7: when the caller modifies an array a getter returned, no table
\* changes: every read of every table returns what it returned before.
C7_GetterResultsAreCopies ==
    [][(last'.op = "modify" /\ heldFrom \in GetterOps) =>
          \A w \in DOMAIN tables :
              View(tables'[w], heap') = View(tables[w], heap)]_vars

\* C7 witness: the caller has modified a non-empty array it got from
\* getColumn, getAllColumns or getColumnNames.
C7_Witness ==
    /\ last.op = "modify"
    /\ heldFrom \in {"getColumn", "getAllColumns", "getColumnNames"}
    /\ \E a \in held : heap[a] # <<>>

\* C8 as stated: for every name c of the name list and every r < rowCount,
\* getRow(r) at the position of c equals getRowCell(r, c).
C8_Original ==
    \A w \in DOMAIN tables :
        \A c \in Range(heap[tables[w].names]), r \in 0..(tables[w].rowCount - 1) :
            ArrGet(RowAt(tables[w], heap, r), IndexOf(heap[tables[w].names], c))
                = getRowCell(tables[w], heap, r, c)

\* C8 amended: the same for every name c of the name list that is not also
\* a key of the alias map (getRowCell resolves aliases first, and an alias
\* takes precedence over a column of the same name).
C8_RowCellSymmetry ==
    \A w \in DOMAIN tables :
        \A c \in Range(heap[tables[w].names]) \ DOMAIN tables[w].aliasMap,
           r \in 0..(tables[w].rowCount - 1) :
            ArrGet(RowAt(tables[w], heap, r), IndexOf(heap[tables[w].names], c))
                = getRowCell(tables[w], heap, r, c)

\* C8 witness: a table with an alias, two columns of different content in
\* some row, and a column name that is not an alias.
C8_Witness ==
    \E w \in DOMAIN tables :
        /\ tables[w].aliasMap # EmptyMap
        /\ Len(heap[tables[w].names]) >= 2
        /\ \E r \in 0..(tables[w].rowCount - 1) :
              RowAt(tables[w], heap, r)[1] # RowAt(tables[w], heap, r)[2]
        /\ Range(heap[tables[w].names]) \ DOMAIN tables[w].aliasMap # {}

\* what getColumn returns, by value: the column, or Undef
ColumnOf(t, h, s) ==
    IF getColumn(t, h, s).ret = Undef THEN Undef ELSE getColumn(t, h, s).val

\* C9 as stated: while alias a is registered to x (the alias map gets
\* entries only from setColumnAlias returning true), getColumn(a) equals
\* getColumn(x).
C9_AliasTransparency ==
    \A w \in DOMAIN tables :
        \A a \in DOMAIN tables[w].aliasMap :
            ColumnOf(tables[w], heap, a)
                = ColumnOf(tables[w], heap, tables[w].aliasMap[a])

\* C10 as stated: setColumnAlias(a, y) on a registered alias a returns
\* false and leaves the alias map unchanged; on an unregistered a it
\* returns true and the map afterwards maps a to y and is otherwise
\* unchanged.
C10_FirstWriteWins ==
    last.op = "setColumnAlias" =>
        IF last.name \in DOMAIN last.pre.aliasMap
        THEN last.ret = "false" /\ Now.aliasMap = last.pre.aliasMap
        ELSE /\ last.ret = "true"
             /\ Now.aliasMap = last.pre.aliasMap @@ (last.name :> last.name2)

\* length of the longest column of a table, 0 without columns
MaxColumnLength(t, h) ==
    IF DOMAIN t.colRef = {} THEN 0
    ELSE CHOOSE m \in {Len(h[t.colRef[n]]) : n \in DOMAIN t.colRef} :
             \A n \in DOMAIN t.colRef : Len(h[t.colRef[n]]) <= m

\* the row at index r of a recorded view
RowIn(v, r) == [i \in 1..Len(v.names) |-> ArrGet(v.columns[v.names[i]], r)]

\* calls that act on a table
TableOps == MutatorOps \cup GetterOps \cup {"getRows", "clone", "roundTrip"}

C12_RowCountBoundsColumns ==
    \A w \in DOMAIN tables :
        \A n \in DOMAIN tables[w].colRef :
            Len(heap[tables[w].colRef[n]]) <= tables[w].rowCount

\* C12 witness: a write at or past rowCount has extended a column.
C12_Witness ==
    /\ last.op \in {"setCell", "setRow"}
    /\ last.idx >= last.pre.rowCount
    /\ \E n \in DOMAIN Now.columns : Len(Now.columns[n]) = last.idx + 1

\* C13 as stated: a step lowers rowCount only if it is clear or clearRows.
C13_Original ==
    (last.op \in TableOps /\ last.op \notin {"clear", "clearRows"})
        => Now.rowCount >= last.pre.rowCount

\* C13 amended: a step lowers rowCount only if it is clear, clearRows or
\* deleteRow, and deleteRow lowers it by one at most.
C13_RowCountMonotonic ==
    /\ (last.op \in TableOps
           /\ last.op \notin {"clear", "clearRows", "deleteRow"})
          => Now.rowCount >= last.pre.rowCount
    /\ last.op = "deleteRow" => Now.rowCount >= last.pre.rowCount - 1

\* C13 witness: a deleteRow has lowered rowCount, or a setCell below
\* rowCount has left it alone.
C13_Witness ==
    \/ last.op = "deleteRow" /\ Now.rowCount = last.pre.rowCount - 1
    \/ /\ last.op = "setCell" /\ last.ret = "true"
       /\ last.idx + 1 < last.pre.rowCount

\* C14: a setCell that resolves to an existing column returns true, reads
\* back through getRowCell, raises rowCount to i + 1 only when i was at or
\* past it, and leaves every other cell, the names and the columns alone.
C14_SetCell ==
    (last.op = "setCell"
        /\ ResolveIn(last.pre, last.name) \in DOMAIN last.pre.columns) =>
        /\ last.ret = "true"
        /\ getRowCell(tables[last.on], heap, last.idx, last.name) = last.data[1]
        /\ Now.rowCount = IF last.idx >= last.pre.rowCount
                          THEN last.idx + 1 ELSE last.pre.rowCount
        /\ Now.names = last.pre.names
        /\ DOMAIN Now.columns = DOMAIN last.pre.columns
        /\ \A n \in DOMAIN last.pre.columns, r \in 0..(Now.rowCount + 1) :
              (n # ResolveIn(last.pre, last.name) \/ r # last.idx) =>
                  ArrGet(Now.columns[n], r) = ArrGet(last.pre.columns[n], r)

\* C14 witness: a cell was written through an alias.
C14_Witness ==
    /\ last.op = "setCell" /\ last.ret = "true"
    /\ last.name \in DOMAIN last.pre.aliasMap
    /\ ResolveIn(last.pre, last.name) # last.name
    /\ Now # last.pre

\* C15: deleteRow(i) with 0 <= i < rowCount lowers rowCount by one, keeps
\* the names and the rows below i, and moves every later row down by one.
C15_DeleteRow ==
    (last.op = "deleteRow" /\ last.idx < last.pre.rowCount) =>
        /\ Now.rowCount = last.pre.rowCount - 1
        /\ Now.names = last.pre.names
        /\ \A j \in 0..last.pre.rowCount :
              RowAt(tables[last.on], heap, j)
                  = IF j < last.idx THEN RowIn(last.pre, j)
                    ELSE RowIn(last.pre, j + 1)

\* C15 witness: the first of at least two rows was deleted from a table
\* whose columns differ in length.
C15_Witness ==
    /\ last.op = "deleteRow" /\ last.idx = 0 /\ last.pre.rowCount >= 2
    /\ \E n, m \in DOMAIN last.pre.columns :
          Len(last.pre.columns[n]) < Len(last.pre.columns[m])

\* C16 as stated: getRows(start, count) never fails and returns the rows
\* of [start, min(rowCount, start + count)) in order.
C16_GetRows ==
    last.op = "getRows" =>
        /\ last.ret = "rows"
        /\ last.val =
              [k \in 1..(Min2(last.pre.rowCount, last.idx + last.data[1])
                            - last.idx) |->
                  RowIn(last.pre, last.idx + k - 1)]

\* number of occurrences of x in s
Count(s, x) == Cardinality({k \in 1..Len(s) : s[k] = x})

\* C17 as stated: a renameColumn(old, new) of an existing column returns
\* true and leaves a column new holding the former contents of old, new
\* being in the name list exactly once.
C17_Rename ==
    (last.op = "renameColumn" /\ last.name \in Range(last.pre.names)) =>
        /\ last.ret = "true"
        /\ last.name2 \in DOMAIN Now.columns
        /\ Now.columns[last.name2] = last.pre.columns[last.name]
        /\ Count(Now.names, last.name2) = 1

SetColumnFrame(n) ==
    /\ last.ret = "true"
    /\ Now.names = IF n \in Range(last.pre.names) THEN last.pre.names
                   ELSE Append(last.pre.names, n)
    /\ Now.rowCount = Max2(last.pre.rowCount, Len(last.data))
    /\ DOMAIN Now.columns = DOMAIN last.pre.columns \cup {n}
    /\ \A m \in DOMAIN last.pre.columns \ {n} :
          Now.columns[m] = last.pre.columns[m]

\* C19 as stated: setColumn returns true, appends or keeps the resolved
\* name n, getColumn(n) then equals the given column, rowCount is the
\* maximum of its old value and the column length, other columns are kept.
C19_Original ==
    last.op = "setColumn" =>
        /\ SetColumnFrame(ResolveIn(last.pre, last.name))
        /\ getColumn(tables[last.on], heap,
                     ResolveIn(last.pre, last.name)).ret # Undef
        /\ getColumn(tables[last.on], heap,
                     ResolveIn(last.pre, last.name)).val = last.data

\* C19 amended: the same with the read-back through the argument: the
\* column stored under n, which getColumn(nameOrAlias) returns, equals the
\* given column (getColumn(n) reads another column when n is itself a key
\* of the alias map).
C19_SetColumn ==
    last.op = "setColumn" =>
        /\ SetColumnFrame(ResolveIn(last.pre, last.name))
        /\ Now.columns[ResolveIn(last.pre, last.name)] = last.data
        /\ getColumn(tables[last.on], heap, last.name).ret # Undef
        /\ getColumn(tables[last.on], heap, last.name).val = last.data

\* C19 witness: setColumn went through an alias to a name that is itself
\* registered as an alias.
C19_Witness ==
    /\ last.op = "setColumn"
    /\ ResolveIn(last.pre, last.name) # last.name
    /\ ResolveIn(last.pre, last.name) \in DOMAIN last.pre.aliasMap

\* the names setRow is said to append for the positions without a column
SyntheticNames(from, to) == [k \in 1..(to - from) |-> ToStr(from + k - 1)]

\* C20 as stated: after setRow(row, index) the row reads back position by
\* position, positions without a column got a column named by the
\* position appended to the name list, the cells of other rows are as
\* before, and rowCount is index + 1 if index was at or past it.
C20_SetRow ==
    last.op = "setRow" =>
        /\ \A i \in 1..Len(last.data) :
              RowAt(tables[last.on], heap, last.idx)[i] = last.data[i]
        /\ Now.names = last.pre.names \o
              SyntheticNames(Len(last.pre.names),
                             Max2(Len(last.pre.names), Len(last.data)))
        /\ \A n \in DOMAIN last.pre.columns, r \in 0..(Now.rowCount + 1) :
              r # last.idx =>
                  ArrGet(Now.columns[n], r) = ArrGet(last.pre.columns[n], r)
        /\ last.idx >= last.pre.rowCount => Now.rowCount = last.idx + 1

\* a table just constructed without columns under the same id, given the
\* aliases and callbacks of view v
Fresh(v) ==
    LET c == constructor(NoHeap, <<>>, EmptyMap, v.id)
    IN [t |-> [c.t EXCEPT !.aliasMap = v.aliasMap, !.hcEvents = v.hcEvents],
        h |-> c.h]

\* what a call leaves to observe: the table, the event types, the status
Outcome(r) == [view |-> View(r.t, r.h), events |-> EventTypes(r.ev), ret |-> r.ret]

\* C21: clear() leaves no columns, an empty name list and rowCount 0, keeps
\* the alias map, the id and the registered callbacks, and a following
\* setColumn or setRow behaves as on a fresh table with those aliases.
C21_Clear ==
    last.op = "clear" =>
        /\ Now.names = <<>> /\ Now.columns = EmptyMap /\ Now.rowCount = 0
        /\ Now.aliasMap = last.pre.aliasMap
        /\ Now.id = last.pre.id
        /\ Now.hcEvents = last.pre.hcEvents
        /\ Now = View(Fresh(last.pre).t, Fresh(last.pre).h)
        /\ \A n \in Names, col \in InColumns :
              Outcome(setColumn(tables[last.on], New(heap, col), n, Alloc(heap)))
                  = Outcome(setColumn(Fresh(last.pre).t,
                                      New(Fresh(last.pre).h, col), n,
                                      Alloc(Fresh(last.pre).h)))
        /\ \A row \in InRows, i \in RowIndices :
              Outcome(setRow(tables[last.on], heap, row, i))
                  = Outcome(setRow(Fresh(last.pre).t, Fresh(last.pre).h, row, i))

\* C21 witness: a table with columns, aliases and a callback was cleared.
C21_Witness ==
    /\ last.op = "clear"
    /\ last.pre.columns # EmptyMap /\ last.pre.rowCount > 0
    /\ last.pre.aliasMap # EmptyMap
    /\ last.pre.hcEvents # EmptyMap

\* what getColumn(n) returns
Read(t, h, n) == [ret |-> getColumn(t, h, n).ret, val |-> getColumn(t, h, n).val]

\* C22: the constructor sets rowCount to the maximum length of the given
\* columns (0 without columns), and when the caller modifies an array it
\* passed to the constructor, to setColumn or to setColumns, getColumn
\* returns for every name what it returned before.
C22_NoCallerReference ==
    [][/\ steps = 0 =>
             tables["T"].rowCount = MaxColumnLength(tables["T"], heap)
       /\ (last'.op = "modify"
              /\ heldFrom \in {"new", "setColumn", "setColumns"}) =>
             \A w \in DOMAIN tables, n \in Names :
                 Read(tables'[w], heap', n) = Read(tables[w], heap, n)]_vars

\* C22 witness: the caller has modified an array it had passed to the
\* constructor or to setColumn, and the table's column of that content is
\* as it was.
C22_Witness ==
    /\ last.op = "modify"
    /\ heldFrom \in {"new", "setColumn"}
    /\ tables["T"].colRef # EmptyMap
    /\ \E a \in held :
          \A n \in DOMAIN tables["T"].colRef :
              heap[a] # heap[tables["T"].colRef[n]]

\* C23 as stated: a deleteRow(i) with i < rowCount returns, and carries in
\* both of its events, the row getRow(i) returned before the call: one
\* cell per column in name-list order.
C23_DeletedRow ==
    (last.op = "deleteRow" /\ last.idx < last.pre.rowCount) =>
        /\ last.ret = "row"
        /\ last.val = RowIn(last.pre, last.idx)
        /\ EventTypes(last.events) = <<"deleteRow", "afterDeleteRow">>
        /\ last.events[1].data = RowIn(last.pre, last.idx)
        /\ last.events[2].data = RowIn(last.pre, last.idx)

\* C24 as stated: a successful renameColumn(old, new) puts new at the
\* position of old when new was no column, and otherwise removes old's
\* entry while new keeps its own, the order of the other names unchanged;
\* the alias with key new is removed and no other alias changes.
C24_RenamePosition ==
    (last.op = "renameColumn" /\ last.ret = "true") =>
        /\ IF last.name2 \notin Range(last.pre.names)
           THEN Now.names =
                    [k \in 1..Len(last.pre.names) |->
                        IF last.pre.names[k] = last.name THEN last.name2
                        ELSE last.pre.names[k]]
           ELSE /\ last.name2 \in Range(Now.names)
                /\ SelectSeq(Now.names, LAMBDA n : n # last.name2)
                      = SelectSeq(last.pre.names,
                                  LAMBDA n : n \notin {last.name, last.name2})
        /\ Now.aliasMap = Restrict(last.pre.aliasMap,
                                   DOMAIN last.pre.aliasMap \ {last.name2})

\* the column an argument s stands for when a registered alias takes
\* precedence, in one step
TargetIn(v, s) == IF s \in DOMAIN v.aliasMap THEN v.aliasMap[s] ELSE s

\* C25 as stated: deleteColumn, clear, clearColumn, clearRows, deleteRow,
\* setColumn, setRow and setCell leave the alias map as it was; an alias
\* whose target is no column is not found by hasColumn, and setColumn
\* through an alias creates the column under the alias's target name.
C25_AliasesDangle ==
    /\ last.op \in BracketOps => Now.aliasMap = last.pre.aliasMap
    /\ \A w \in DOMAIN tables :
          \A a \in DOMAIN tables[w].aliasMap :
              tables[w].aliasMap[a] \notin DOMAIN tables[w].colRef
                  => ~hasColumn(tables[w], heap, a)
    /\ (last.op = "setColumn" /\ last.name \in DOMAIN last.pre.aliasMap) =>
          /\ last.pre.aliasMap[last.name] \in DOMAIN Now.columns
          /\ Now.columns[last.pre.aliasMap[last.name]] = last.data

\* C26 as stated: an argument that is a key of the alias map stands for the
\* column named aliasMap[s], not for a column named s and without a second
\* resolution; any other argument stands for the column named s.  Stated
\* on what getColumn, clearColumn, setCell and setColumn did and on what
\* hasColumn and getRowCell answer.
C26_SingleStepPrecedence ==
    /\ last.op = "getColumn" =>
          IF TargetIn(last.pre, last.name) \in DOMAIN last.pre.columns
          THEN last.ret # Undef
                  /\ last.val = last.pre.columns[TargetIn(last.pre, last.name)]
          ELSE last.ret = Undef
    /\ last.op \in {"clearColumn", "setCell", "setColumn"} =>
          \A n \in DOMAIN last.pre.columns \ {TargetIn(last.pre, last.name)} :
              n \in DOMAIN Now.columns /\ Now.columns[n] = last.pre.columns[n]
    /\ \A w \in DOMAIN tables, s \in Names :
          LET v == View(tables[w], heap)
          IN /\ hasColumn(tables[w], heap, s) = (TargetIn(v, s) \in Range(v.names))
             /\ \A r \in RowIndices :
                   getRowCell(tables[w], heap, r, s)
                       = IF TargetIn(v, s) \in DOMAIN v.columns
                         THEN ArrGet(v.columns[TargetIn(v, s)], r) ELSE Undef

\* C27 as stated: the table clone() returns has the id, the column names
\* in the same order, the column contents, the rowCount and the alias
\* entries of the source, and the source is as it was before the call.
C27_CloneEqualsSource ==
    last.op = "clone" =>
        /\ View(tables["T"], heap) = last.pre
        /\ View(tables["C"], heap).id = last.pre.id
        /\ View(tables["C"], heap).names = last.pre.names
        /\ View(tables["C"], heap).columns = last.pre.columns
        /\ View(tables["C"], heap).rowCount = last.pre.rowCount
        /\ View(tables["C"], heap).aliasMap = last.pre.aliasMap

\* the invocations one event of the given type causes on a table with the
\* callbacks hc
Invoked(hc, type) ==
    IF type \in DOMAIN hc
    THEN [k \in 1..Len(hc[type]) |-> [fn |-> hc[type][k], type |-> type]]
    ELSE <<>>

\* C28: clone() emits cloneTable and afterCloneTable on the source, the
\* second carrying the new table, and they reach the source's callbacks;
\* the clone gets the callbacks of the source for the same events in the
\* same order, and its later events invoke them; a callback registered on
\* one table afterwards is added to that table only.
C28_CloneSubscribers ==
    [][/\ last'.op = "clone" =>
             /\ last'.on = "T"
             /\ EventTypes(last'.events) = <<"cloneTable", "afterCloneTable">>
             /\ last'.events[2].data = <<View(tables'["C"], heap')>>
             /\ last'.calls = Invoked(tables["T"].hcEvents, "cloneTable")
                                 \o Invoked(tables["T"].hcEvents, "afterCloneTable")
             /\ tables'["C"].hcEvents = tables["T"].hcEvents
             /\ tables'["T"].hcEvents = tables["T"].hcEvents
       /\ last'.op = "on" =>
             /\ Invoked(tables'[last'.on].hcEvents, last'.name)
                   = Invoked(tables[last'.on].hcEvents, last'.name)
                        \o <<[fn |-> last'.name2, type |-> last'.name]>>
             /\ \A w \in DOMAIN tables \ {last'.on} :
                   tables'[w].hcEvents = tables[w].hcEvents
       /\ (last'.op \in {"clear", "deleteRow"} /\ Len(last'.events) = 2) =>
             /\ last'.calls =
                   Invoked(tables[last'.on].hcEvents, last'.events[1].type)
                      \o Invoked(tables[last'.on].hcEvents, last'.events[2].type)
             /\ tables'[last'.on].hcEvents = tables[last'.on].hcEvents]_vars

\* C28 witness: a deleteRow on the clone invoked a callback the clone got
\* from the source, after the two tables' registrations had diverged.
C28_Witness ==
    /\ last.op = "deleteRow" /\ last.on = "C"
    /\ last.calls # <<>>
    /\ tables["T"].hcEvents # tables["C"].hcEvents
    /\ \E k \in 1..Len(last.calls) :
          /\ last.calls[k].type \in DOMAIN tables["T"].hcEvents
          /\ \E j \in 1..Len(tables["T"].hcEvents[last.calls[k].type]) :
                tables["T"].hcEvents[last.calls[k].type][j] = last.calls[k].fn

\* setRow(rows[1], i) followed, for a second row, by setRow(rows[2], i + 1)
RowByRow(t, h, rows, i) ==
    LET r1 == setRow(t, h, rows[1], i)
        r2 == setRow(r1.t, r1.h, rows[2], i + 1)
    IN IF Len(rows) = 1
       THEN [view |-> View(r1.t, r1.h), events |-> r1.ev]
       ELSE [view |-> View(r2.t, r2.h), events |-> r1.ev \o r2.ev]

\* C29: setRows(rows, index) leaves the table that setRow(rows[k], index + k)
\* for k = 0, 1, ... in that order leaves and emits the same events, one
\* setRow/afterSetRow pair per row; with the index omitted (the rowCount
\* held at the call) rowCount grows by the number of rows.
C29_SetRowsIsSetRowPerRow ==
    [][last'.op = "setRows" =>
          LET rr == RowByRow(tables[last'.on], heap, last'.data, last'.idx)
          IN /\ last'.ret = "true"
             /\ View(tables'[last'.on], heap') = rr.view
             /\ last'.events = rr.events
             /\ EventTypes(last'.events)
                   = Pairs("setRow", "afterSetRow", Len(last'.data))
             /\ last'.idx = tables[last'.on].rowCount =>
                   tables'[last'.on].rowCount
                       = tables[last'.on].rowCount + Len(last'.data)]_vars

\* C29 witness: two rows were appended by a setRows without index.
C29_Witness ==
    /\ last.op = "setRows" /\ Len(last.data) = 2
    /\ last.idx = last.pre.rowCount
    /\ Len(last.events) = 4
    /\ Now.rowCount = last.pre.rowCount + 2

\* C30: clearRows() sets rowCount to 0 and empties every column, keeps the
\* name list, the set of columns and the alias map, and getAllRows() is
\* empty afterwards.
C30_ClearRows ==
    last.op = "clearRows" =>
        /\ Now.rowCount = 0
        /\ \A n \in DOMAIN Now.columns : Now.columns[n] = <<>>
        /\ Now.names = last.pre.names
        /\ DOMAIN Now.columns = DOMAIN last.pre.columns
        /\ Now.aliasMap = last.pre.aliasMap
        /\ getAllRows(tables[last.on], heap).val = <<>>

\* C30 witness: clearRows was called on a table with rows, columns of
\* different length and aliases.
C30_Witness ==
    /\ last.op = "clearRows"
    /\ last.pre.rowCount > 0
    /\ last.pre.aliasMap # EmptyMap
    /\ \E n, m \in DOMAIN last.pre.columns :
          Len(last.pre.columns[n]) < Len(last.pre.columns[m])

\* C31: clearColumn on an argument that resolves to a column empties that
\* column and keeps it (hasColumn true, name list as before), leaves the
\* other columns, rowCount and the alias map alone, and both of its events
\* carry the contents the column had before the call.
C31_ClearColumn ==
    (last.op = "clearColumn"
        /\ ResolveIn(last.pre, last.name) \in DOMAIN last.pre.columns) =>
        /\ Now.columns[ResolveIn(last.pre, last.name)] = <<>>
        /\ DOMAIN Now.columns = DOMAIN last.pre.columns
        /\ Now.names = last.pre.names
        /\ hasColumn(tables[last.on], heap, last.name)
        /\ \A n \in DOMAIN last.pre.columns \ {ResolveIn(last.pre, last.name)} :
              Now.columns[n] = last.pre.columns[n]
        /\ Now.rowCount = last.pre.rowCount
        /\ Now.aliasMap = last.pre.aliasMap
        /\ EventTypes(last.events) = <<"clearColumn", "afterClearColumn">>
        /\ last.events[1].data = last.pre.columns[ResolveIn(last.pre, last.name)]
        /\ last.events[2].data = last.pre.columns[ResolveIn(last.pre, last.name)]

\* C31 witness: a non-empty column was cleared through an alias.
C31_Witness ==
    /\ last.op = "clearColumn"
    /\ last.name \in DOMAIN last.pre.aliasMap
    /\ ResolveIn(last.pre, last.name) # last.name
    /\ ResolveIn(last.pre, last.name) \in DOMAIN last.pre.columns
    /\ last.pre.columns[ResolveIn(last.pre, last.name)] # <<>>

\* the indices at or after position from where column c holds v
Matches(c, v, from) == {i \in 0..(Len(c) - 1) : i >= from /\ c[i + 1] = v}

\* the answer for a column c, a value v and a first position from: the
\* smallest matching index, or none
FirstMatch(c, v, from) ==
    IF Matches(c, v, from) = {} THEN [ret |-> Undef, val |-> <<>>]
    ELSE [ret |-> "index",
          val |-> <<CHOOSE i \in Matches(c, v, from) :
                        \A j \in Matches(c, v, from) : i <= j>>]

\* the column of view v an argument resolves to, empty when there is none
SearchedIn(v, s) ==
    IF ResolveIn(v, s) \in DOMAIN v.columns THEN v.columns[ResolveIn(v, s)]
    ELSE <<>>

\* C32 as stated: getRowIndexBy(nameOrAlias, v, offset) returns the
\* smallest index i >= offset whose cell equals v, and absent when there is
\* none or no such column.
C32_Original ==
    last.op = "getRowIndexBy" =>
        [ret |-> last.ret, val |-> last.val]
            = FirstMatch(SearchedIn(last.pre, last.name), last.data[1], last.idx)

\* C32 amended: for an offset >= 0 (0 when omitted) getRowIndexBy returns
\* the smallest index i >= offset whose cell equals v; a negative offset
\* counts from the end of the column, the search starting at
\* max(0, length + offset); absent when there is no such index or column.
\* hasRowWith is true exactly when getRowIndexBy without offset returns an
\* index.
C32_FirstMatch ==
    /\ last.op = "getRowIndexBy" =>
          [ret |-> last.ret, val |-> last.val]
              = FirstMatch(SearchedIn(last.pre, last.name), last.data[1],
                           IF last.idx >= 0 THEN last.idx
                           ELSE Max2(Len(SearchedIn(last.pre, last.name))
                                         + last.idx, 0))
    /\ last.op = "hasRowWith" =>
          (last.ret = "true") =
              (getRowIndexBy(tables[last.on], heap, last.name,
                             last.data[1], 0).ret = "index")

\* C32 witness: a search with a negative offset skipped an earlier match,
\* or a search with a positive offset found a later one.
C32_Witness ==
    /\ last.op = "getRowIndexBy"
    /\ \/ /\ last.idx < 0 /\ last.ret = Undef
          /\ Matches(SearchedIn(last.pre, last.name), last.data[1], 0) # {}
       \/ /\ last.idx > 0 /\ last.ret = "index"
          /\ Cardinality(Matches(SearchedIn(last.pre, last.name),
                                 last.data[1], 0)) > 1

C34_ReentrantInvariants ==
    last.op \in {"deleteColumnReentrant", "setColumnReentrant",
                 "deleteRowReentrant"} =>
        /\ NoDuplicates(Now.names)
        /\ Range(Now.names) = DOMAIN Now.columns
        /\ \A n \in DOMAIN Now.columns : Len(Now.columns[n]) <= Now.rowCount

\* C35 as stated: after any sequence of operations called with arbitrary
\* integer row indices, negative ones included, getRowCount() is at least 0.
C35_RowCountNonNegative ==
    \A w \in DOMAIN tables : getRowCount(tables[w]) >= 0

\* the labels of a pass, and the box of one of them
Passed == Range(chart.labels)

BoxOf(e) == chart.elements[e].absoluteBox[1]

\* two rectangles share interior points; touching edges do not count
Intersecting(a, b) ==
    /\ Max2(a.x, b.x) < Min2(a.x + a.width, b.x + b.width)
    /\ Max2(a.y, b.y) < Min2(a.y + a.height, b.y + b.height)

\* label e takes part in the detection: it has an absolute box and is not
\* of visibility 'hidden'
Eligible(e) ==
    /\ chart.elements[e].absoluteBox # <<>>
    /\ chart.elements[e].visibility # "hidden"

\* C36: after the detection pass of hideOverlappingLabels no two distinct
\* labels that both have an absolute box, are both not hidden and both end
\* with newOpacity != 0 have intersecting boxes.
C36_NoVisibleOverlap ==
    last.op = "render" =>
        \A a, b \in Passed :
            (/\ a # b
             /\ Eligible(a)
             /\ Eligible(b)
             /\ chart.elements[a].newOpacity # <<0>>
             /\ chart.elements[b].newOpacity # <<0>>)
                => ~Intersecting(BoxOf(a), BoxOf(b))

\* a pass in which a label was hidden and a label that touches a shown
\* label only at an edge stayed shown
C36_Witness ==
    /\ last.op = "render"
    /\ \E a, b, c \in Passed :
          /\ chart.elements[a].newOpacity = <<0>>
          /\ Eligible(b) /\ Eligible(c) /\ b # c
          /\ chart.elements[b].newOpacity = <<1>>
          /\ chart.elements[c].newOpacity = <<1>>
          /\ BoxOf(b).x + BoxOf(b).width = BoxOf(c).x
          /\ BoxOf(b).y = BoxOf(c).y

\* label b ends the pass shown, intersects label a, is not ranked below it
\* and comes before it in the sorted array
Hides(b, a) ==
    /\ b # a
    /\ \E i, j \in 1..Len(chart.labels) :
          i < j /\ chart.labels[i] = b /\ chart.labels[j] = a
    /\ chart.elements[b].absoluteBox # <<>>
    /\ chart.elements[b].newOpacity # <<0>>
    /\ Intersecting(BoxOf(a), BoxOf(b))
    /\ RankOrZero(chart.elements[b]) >= RankOrZero(chart.elements[a])

\* C37: every label whose newOpacity is set to 0 intersects some label that
\* ends the pass with newOpacity != 0 and whose labelrank (0 when it has
\* none) is greater than or equal to its own; that label comes before it
\* in the descending order of the pass, so on a tie the later one is hidden.
C37_HiddenBehindHigherRank ==
    last.op = "render" =>
        \A a \in Passed :
            chart.elements[a].newOpacity = <<0>> => \E b \in Passed : Hides(b, a)

\* a pass that hid a label collected before the higher-ranked label that
\* hides it, and left shown a third label that intersects the hidden one
\* and not the hiding one
C37_Witness ==
    /\ last.op = "render"
    /\ \E a, b, c \in Passed :
          /\ a < b
          /\ chart.elements[a].newOpacity = <<0>>
          /\ Hides(b, a)
          /\ RankOrZero(chart.elements[b]) > RankOrZero(chart.elements[a])
          /\ c # a /\ c # b
          /\ Eligible(c)
          /\ ~Intersecting(BoxOf(b), BoxOf(c))
          /\ chart.elements[c].newOpacity = <<1>>
          /\ Intersecting(BoxOf(a), BoxOf(c))

====
